---- MODULE Spec2Model ----
(***************************************************************************)
(* Agriculture Insights API (backend/main.py, backend/app/routes/          *)
(* ml_models.py): the model cache, the prediction and crop-health          *)
(* handlers and the rule-based scoring functions they fall back to.        *)
(*                                                                         *)
(* Python floats are IEEE-754 binary64.  A finite double is modelled as    *)
(* [s, m, e]: sign s in {1,-1}, mantissa m (a natural of exactly 53 bits,  *)
(* or zero) and exponent e, with value s * m * 2^e.  Mantissas exceed the  *)
(* range of TLC's integers, so naturals are little-endian sequences of     *)
(* 14-bit limbs.  Every arithmetic operation rounds to nearest, ties to    *)
(* even, as the hardware does.                                             *)
(***************************************************************************)
EXTENDS Integers, Sequences, FiniteSets, TLC

----------------------------------------------------------------------------
(* Arbitrary-precision naturals: <<>> is 0, limb i has weight LimbBase^(i-1) *)

LimbBase == 2^14

Limb(a, i) == IF i >= 1 /\ i <= Len(a) THEN a[i] ELSE 0

Zeros(n) == [i \in 1..n |-> 0]

RECURSIVE Strip(_)
Strip(a) ==
  IF a = <<>> THEN a
  ELSE IF a[Len(a)] = 0 THEN Strip(SubSeq(a, 1, Len(a) - 1)) ELSE a

RECURSIVE FromInt(_)
FromInt(n) == IF n = 0 THEN <<>> ELSE <<n % LimbBase>> \o FromInt(n \div LimbBase)

RECURSIVE ToIntFrom(_, _)
ToIntFrom(a, i) == IF i > Len(a) THEN 0 ELSE a[i] + LimbBase * ToIntFrom(a, i + 1)

ToInt(a) == ToIntFrom(a, 1)

RECURSIVE AddC(_, _, _, _)
AddC(a, b, i, c) ==
  IF i > Len(a) /\ i > Len(b) THEN (IF c = 0 THEN <<>> ELSE <<c>>)
  ELSE LET t == Limb(a, i) + Limb(b, i) + c
       IN  <<t % LimbBase>> \o AddC(a, b, i + 1, t \div LimbBase)

BigAdd(a, b) == AddC(a, b, 1, 0)

RECURSIVE SubC(_, _, _, _)
SubC(a, b, i, br) ==
  IF i > Len(a) THEN <<>>
  ELSE LET t == a[i] - Limb(b, i) - br
       IN  IF t < 0 THEN <<t + LimbBase>> \o SubC(a, b, i + 1, 1)
                    ELSE <<t>> \o SubC(a, b, i + 1, 0)

\* a - b for a >= b
BigSub(a, b) == Strip(SubC(a, b, 1, 0))

RECURSIVE CmpFrom(_, _, _)
CmpFrom(a, b, i) ==
  IF i = 0 THEN 0
  ELSE IF a[i] > b[i] THEN 1
  ELSE IF a[i] < b[i] THEN -1
  ELSE CmpFrom(a, b, i - 1)

\* -1, 0, 1 as a < b, a = b, a > b
BigCmp(a, b) ==
  IF Len(a) > Len(b) THEN 1
  ELSE IF Len(a) < Len(b) THEN -1
  ELSE CmpFrom(a, b, Len(a))

RECURSIVE MulC(_, _, _, _)
MulC(a, k, i, c) ==
  IF i > Len(a) THEN (IF c = 0 THEN <<>> ELSE <<c>>)
  ELSE LET t == a[i] * k + c
       IN  <<t % LimbBase>> \o MulC(a, k, i + 1, t \div LimbBase)

\* a * k for 0 <= k < LimbBase
BigMulSmall(a, k) == IF k = 0 THEN <<>> ELSE MulC(a, k, 1, 0)

RECURSIVE MulAcc(_, _, _)
MulAcc(a, b, i) ==
  IF i > Len(b) THEN <<>>
  ELSE BigAdd(IF b[i] = 0 THEN <<>> ELSE Zeros(i - 1) \o BigMulSmall(a, b[i]),
              MulAcc(a, b, i + 1))

BigMul(a, b) == Strip(MulAcc(a, b, 1))

BigShl(a, n) ==
  IF a = <<>> THEN a ELSE Zeros(n \div 14) \o BigMulSmall(a, 2^(n % 14))

\* floor(d / 2^t), 0 <= t < 14
ShrBits(d, t) ==
  Strip([i \in 1..Len(d) |->
           (d[i] \div 2^t) + (Limb(d, i + 1) % 2^t) * 2^(14 - t)])

\* floor(a / 2^n)
BigShr(a, n) ==
  ShrBits(IF n \div 14 >= Len(a) THEN <<>> ELSE SubSeq(a, n \div 14 + 1, Len(a)),
          n % 14)

BitLen(a) ==
  IF a = <<>> THEN 0
  ELSE 14 * (Len(a) - 1)
       + (CHOOSE n \in 1..14 : 2^n > a[Len(a)] /\ 2^(n - 1) <= a[Len(a)])

BigOdd(a) == a # <<>> /\ a[1] % 2 = 1

\* a mod 2^n
BigLow(a, n) == BigSub(a, BigShl(BigShr(a, n), n))

RECURSIVE DivC(_, _, _, _, _)
DivC(a, q, i, r, acc) ==
  IF i = 0 THEN [quot |-> Strip(acc), rem |-> r]
  ELSE DivC(a, q, i - 1, (r * LimbBase + a[i]) % q,
            <<(r * LimbBase + a[i]) \div q>> \o acc)

\* a divided by q, 0 < q < LimbBase: [quot, rem]
BigDivSmall(a, q) == DivC(a, q, Len(a), 0, <<>>)

RECURSIVE BigPow10(_)
BigPow10(d) == IF d = 0 THEN <<1>> ELSE BigMulSmall(BigPow10(d - 1), 10)

----------------------------------------------------------------------------
(* IEEE-754 binary64 *)

FZero == [s |-> 1, m |-> <<>>, e |-> 0]

\* a mantissa that grew to 54 bits when it was rounded up
Renorm(q, e) ==
  IF BitLen(q) > 53 THEN [s |-> 1, m |-> BigShr(q, 1), e |-> e + 1]
  ELSE [s |-> 1, m |-> q, e |-> e]

\* q with remainder low out of 2^sh: up when above the half, or at the half
\* and (sticky or q odd)
RoundQuot(q, low, sh, e, sticky) ==
  Renorm(IF BigCmp(BigShl(low, 1), BigShl(<<1>>, sh))
              > (IF sticky \/ BigOdd(q) THEN -1 ELSE 0)
           THEN BigAdd(q, <<1>>) ELSE q,
         e + sh)

RoundBits(n, e, sticky, len) ==
  IF len <= 53 THEN [s |-> 1, m |-> BigShl(n, 53 - len), e |-> e - (53 - len)]
  ELSE RoundQuot(BigShr(n, len - 53), BigLow(n, len - 53), len - 53, e, sticky)

\* The double nearest to n * 2^e (n > 0 a natural; sticky: the value is
\* slightly above n * 2^e), rounding to nearest, ties to even.
RoundPos(n, e, sticky) == RoundBits(n, e, sticky, BitLen(n))

FNeg(x) == IF x.m = <<>> THEN x ELSE [x EXCEPT !.s = -x.s]

FSigned(s, x) == IF s = 1 THEN x ELSE FNeg(x)

\* sx * a * 2^e + sy * b * 2^e, rounded
AddAligned(sx, a, sy, b, e, c) ==
  IF sx = sy THEN FSigned(sx, RoundPos(BigAdd(a, b), e, FALSE))
  ELSE IF c = 0 THEN FZero
  ELSE IF c > 0 THEN FSigned(sx, RoundPos(BigSub(a, b), e, FALSE))
  ELSE FSigned(sy, RoundPos(BigSub(b, a), e, FALSE))

AddAt(x, y, e) ==
  AddAligned(x.s, BigShl(x.m, x.e - e), y.s, BigShl(y.m, y.e - e), e,
             BigCmp(BigShl(x.m, x.e - e), BigShl(y.m, y.e - e)))

\* x + y
FAdd(x, y) ==
  IF x.m = <<>> THEN y
  ELSE IF y.m = <<>> THEN x
  ELSE AddAt(x, y, IF x.e < y.e THEN x.e ELSE y.e)

\* x - y
FSub(x, y) == FAdd(x, FNeg(y))

\* x * y
FMul(x, y) ==
  IF x.m = <<>> \/ y.m = <<>> THEN FZero
  ELSE FSigned(x.s * y.s, RoundPos(BigMul(x.m, y.m), x.e + y.e, FALSE))

CmpAt(x, y, e) == x.s * BigCmp(BigShl(x.m, x.e - e), BigShl(y.m, y.e - e))

\* -1, 0, 1 as x < y, x = y, x > y
FCmp(x, y) ==
  IF x.m = <<>> /\ y.m = <<>> THEN 0
  ELSE IF x.m = <<>> THEN -y.s
  ELSE IF y.m = <<>> THEN x.s
  ELSE IF x.s # y.s THEN x.s
  ELSE CmpAt(x, y, IF x.e < y.e THEN x.e ELSE y.e)

FLt(x, y) == FCmp(x, y) < 0
FGt(x, y) == FCmp(x, y) > 0
FGe(x, y) == FCmp(x, y) >= 0
FLe(x, y) == FCmp(x, y) <= 0

RoundDiv(r, e, sticky) == RoundPos(r.quot, e, sticky \/ r.rem # 0)

RECURSIVE DivPow10(_, _, _), DivPow10Step(_, _, _)
\* floor(n / 10^d) as [quot, rem], rem # 0 when the division was inexact
DivPow10(n, d, inexact) ==
  IF d = 0 THEN [quot |-> n, rem |-> IF inexact THEN 1 ELSE 0]
  ELSE DivPow10Step(BigDivSmall(n, 10), d, inexact)

DivPow10Step(r, d, inexact) == DivPow10(r.quot, d - 1, inexact \/ r.rem # 0)

\* The double nearest to the natural n divided by 10^d.
NatOverPow10(n, d) == RoundDiv(DivPow10(BigShl(n, 84), d, FALSE), -84, FALSE)

\* The double a decimal literal p * 10^-d denotes (correctly rounded).
FromDec(p, d) ==
  IF p = 0 THEN FZero
  ELSE IF p < 0 THEN FNeg(NatOverPow10(FromInt(-p), d))
  ELSE NatOverPow10(FromInt(p), d)

\* n / 2^sh rounded half-even to a natural
HalfEven(q, low, sh) ==
  IF sh > 0 /\ BigCmp(BigShl(low, 1), BigShl(<<1>>, sh)) > (IF BigOdd(q) THEN -1 ELSE 0)
    THEN BigAdd(q, <<1>>) ELSE q

ScaledRound(s, n, sh, nd) ==
  FSigned(s, IF HalfEven(BigShr(n, sh), BigLow(n, sh), sh) = <<>> THEN FZero
             ELSE NatOverPow10(HalfEven(BigShr(n, sh), BigLow(n, sh), sh), nd))

\* Python's round(x, nd) on a float: the exact binary value is rounded
\* half-even to nd decimals and the decimal is read back as a double.
PyRound(x, nd) ==
  IF x.m = <<>> THEN x
  ELSE ScaledRound(x.s, BigShl(BigMul(x.m, BigPow10(nd)), IF x.e > 0 THEN x.e ELSE 0),
                   IF x.e < 0 THEN -x.e ELSE 0, nd)

\* rint(y) / 10^nd: y rounded half-even to an integer, then divided
RintOverPow10(y, nd) ==
  ScaledRound(y.s, BigShl(y.m, IF y.e > 0 THEN y.e ELSE 0),
              IF y.e < 0 THEN -y.e ELSE 0, nd)

\* round(x, nd) on a numpy.float64: x * 10^nd, rint, / 10^nd, each step a
\* correctly rounded double operation.
NpRound(x, nd) ==
  IF x.m = <<>> THEN x
  ELSE RintOverPow10(FMul(x, RoundPos(BigPow10(nd), 0, FALSE)), nd)

----------------------------------------------------------------------------
(* The float literals of ml_models.py *)

F0     == FZero
F1     == FromDec(1, 0)
F40    == FromDec(40, 0)
F50    == FromDec(50, 0)
F80    == FromDec(80, 0)
F0_05  == FromDec(5, 2)
F0_1   == FromDec(1, 1)
F0_15  == FromDec(15, 2)
F0_2   == FromDec(2, 1)
F0_3   == FromDec(3, 1)
F0_5   == FromDec(5, 1)
F0_65  == FromDec(65, 2)
F0_7   == FromDec(7, 1)
F0_75  == FromDec(75, 2)
F0_8   == FromDec(8, 1)
F0_85  == FromDec(85, 2)

----------------------------------------------------------------------------
(* Request bodies.  Every JSON number of a body is a decimal with one        *)
(* fractional digit, held as the integer number of tenths (soil_ph 7.0 is    *)
(* 70); pydantic reads it as the nearest double.  Decimals of at most 15     *)
(* significant digits are ordered as the doubles nearest to them are, so a   *)
(* comparison of an input field with a literal is made on the tenths; every  *)
(* value that enters arithmetic is converted to its double.                  *)

ParseFloat(v) == FromDec(v, 1)

\* lines 293-297: the pH adjustment of soil_factor
soil_ph_adjust(input_data, soil_factor) ==
  IF 60 <= input_data.soil_ph /\ input_data.soil_ph <= 75
    THEN FAdd(soil_factor, F0_1)
  ELSE IF input_data.soil_ph < 55 \/ input_data.soil_ph > 80
    THEN FSub(soil_factor, F0_2)
  ELSE soil_factor

\* lines 299-303: the moisture adjustment of soil_factor
soil_moisture_adjust(input_data, soil_factor) ==
  IF 600 <= input_data.soil_moisture /\ input_data.soil_moisture <= 800
    THEN FAdd(soil_factor, F0_15)
  ELSE IF input_data.soil_moisture < 400
    THEN FSub(soil_factor, F0_3)
  ELSE soil_factor

soil_factor(input_data) ==
  soil_moisture_adjust(input_data, soil_ph_adjust(input_data, F1))

\* variant: the cold/hot penalty is taken below 5 degrees instead of below 10
temp_factor_cold5(input_data) ==
  IF 200 <= input_data.temperature /\ input_data.temperature <= 300
    THEN FAdd(F1, F0_1)
  ELSE IF input_data.temperature > 350 \/ input_data.temperature < 50
    THEN FSub(F1, F0_2)
  ELSE F1

temp_factor(input_data) ==
  IF 200 <= input_data.temperature /\ input_data.temperature <= 300
    THEN FAdd(F1, F0_1)
  ELSE IF input_data.temperature > 350 \/ input_data.temperature < 100
    THEN FSub(F1, F0_2)
  ELSE F1

\* variant: a dry season costs 0.3 instead of 0.2
rainfall_factor_harsh(input_data) ==
  IF 5000 <= input_data.rainfall /\ input_data.rainfall <= 10000
    THEN FAdd(F1, F0_1)
  ELSE IF input_data.rainfall < 3000
    THEN FSub(F1, F0_3)
  ELSE F1

rainfall_factor(input_data) ==
  IF 5000 <= input_data.rainfall /\ input_data.rainfall <= 10000
    THEN FAdd(F1, F0_1)
  ELSE IF input_data.rainfall < 3000
    THEN FSub(F1, F0_2)
  ELSE F1

\* variant: the bonus is also given at the threshold itself
nutrient_bonus_inclusive(reading, threshold, factor) ==
  IF reading >= threshold THEN FAdd(factor, F0_05) ELSE factor

\* nutrient_factor += 0.05 when the reading exceeds its threshold
nutrient_bonus(reading, threshold, factor) ==
  IF reading > threshold THEN FAdd(factor, F0_05) ELSE factor

nutrient_factor(input_data) ==
  nutrient_bonus(input_data.soil_potassium, 1500,
    nutrient_bonus(input_data.soil_phosphorus, 200,
      nutrient_bonus(input_data.soil_nitrogen, 500, F1)))

\* rule_based_yield_prediction: <<prediction, confidence>>
rule_based_yield_prediction(input_data) ==
  <<FMul(FMul(FMul(FMul(FMul(F50, soil_factor(input_data)), temp_factor(input_data)),
                   rainfall_factor(input_data)), nutrient_factor(input_data)),
         ParseFloat(input_data.acres)),
    F0_7>>

\* min(1, health_score)
Min1(health_score) == IF FLt(health_score, F1) THEN health_score ELSE F1

\* max(0, v)
Max0(v) == IF FGt(v, F0) THEN v ELSE F0

\* max(0, min(1, health_score))
Clamp01(health_score) == Max0(Min1(health_score))

\* variant: the NDVI penalty applies up to 0.4 instead of below 0.2
ndvi_term_penalty4(input_data, health_score) ==
  IF input_data.ndvi_index > 6 THEN FAdd(health_score, F0_3)
  ELSE IF input_data.ndvi_index > 4 THEN FAdd(health_score, F0_1)
  ELSE IF input_data.ndvi_index <= 4 THEN FSub(health_score, F0_3)
  ELSE health_score

\* lines 338-343
ndvi_term(input_data, health_score) ==
  IF input_data.ndvi_index > 6 THEN FAdd(health_score, F0_3)
  ELSE IF input_data.ndvi_index > 4 THEN FAdd(health_score, F0_1)
  ELSE IF input_data.ndvi_index < 2 THEN FSub(health_score, F0_3)
  ELSE health_score

\* lines 346-349
temperature_term(input_data, health_score) ==
  IF 200 <= input_data.temperature /\ input_data.temperature <= 300
    THEN FAdd(health_score, F0_1)
  ELSE IF input_data.temperature > 350 \/ input_data.temperature < 50
    THEN FSub(health_score, F0_2)
  ELSE health_score

\* lines 352-355
humidity_term(input_data, health_score) ==
  IF 500 <= input_data.humidity /\ input_data.humidity <= 700
    THEN FAdd(health_score, F0_05)
  ELSE IF input_data.humidity < 300 \/ input_data.humidity > 900
    THEN FSub(health_score, F0_1)
  ELSE health_score

\* lines 358-361
soil_moisture_term(input_data, health_score) ==
  IF 500 <= input_data.soil_moisture /\ input_data.soil_moisture <= 800
    THEN FAdd(health_score, F0_1)
  ELSE IF input_data.soil_moisture < 300
    THEN FSub(health_score, F0_2)
  ELSE health_score

\* variant: the score is clamped after every term
rule_based_health_analysis_stepwise(input_data) ==
  <<Clamp01(soil_moisture_term(input_data,
              Clamp01(humidity_term(input_data,
                Clamp01(temperature_term(input_data,
                  Clamp01(ndvi_term(input_data, F0_5)))))))),
    F0_75>>

\* rule_based_health_analysis: <<health_score, confidence>>
rule_based_health_analysis(input_data) ==
  <<Clamp01(soil_moisture_term(input_data,
              humidity_term(input_data,
                temperature_term(input_data,
                  ndvi_term(input_data, F0_5))))),
    F0_75>>

\* recommendations.append(...) when the condition holds
AppendIf(cond, seq, items) == IF cond THEN seq \o items ELSE seq

\* lines 372-375
ph_advice(input_data) ==
  IF input_data.soil_ph < 60
    THEN <<"Consider liming to increase soil pH for better nutrient uptake">>
  ELSE IF input_data.soil_ph > 80
    THEN <<"Consider adding organic matter to lower soil pH">>
  ELSE <<>>

\* variant: the nitrogen rule is skipped when the irrigation rule has fired
field_advice_chained(input_data) ==
  AppendIf(input_data.temperature > 300,
    AppendIf(input_data.soil_phosphorus < 200,
      AppendIf(input_data.soil_nitrogen < 500 /\ ~(input_data.soil_moisture < 400),
        AppendIf(input_data.soil_moisture < 400,
          ph_advice(input_data),
          <<"Increase irrigation frequency to maintain optimal soil moisture">>),
        <<"Apply nitrogen fertilizer to boost crop growth">>),
      <<"Consider phosphorus supplementation for root development">>),
    <<"Monitor for heat stress and consider shade protection">>)

\* lines 377-387
field_advice(input_data) ==
  AppendIf(input_data.temperature > 300,
    AppendIf(input_data.soil_phosphorus < 200,
      AppendIf(input_data.soil_nitrogen < 500,
        AppendIf(input_data.soil_moisture < 400,
          ph_advice(input_data),
          <<"Increase irrigation frequency to maintain optimal soil moisture">>),
        <<"Apply nitrogen fertilizer to boost crop growth">>),
      <<"Consider phosphorus supplementation for root development">>),
    <<"Monitor for heat stress and consider shade protection">>)

\* lines 389-392
prediction_advice(prediction) ==
  IF FLt(prediction, F40)
    THEN <<"Current conditions may limit yield. Consider soil amendments and improved irrigation">>
  ELSE IF FGt(prediction, F80)
    THEN <<"Excellent growing conditions. Maintain current management practices">>
  ELSE <<>>

\* generate_yield_recommendations
generate_yield_recommendations(input_data, prediction) ==
  field_advice(input_data) \o prediction_advice(prediction)

vigor_indicator(input_data) ==
  IF input_data.ndvi_index < 4 THEN <<"Low vegetation vigor detected">> ELSE <<>>

\* variant: cold stress is reported below 5 degrees instead of below 10
thermal_indicator_cold5(input_data) ==
  IF input_data.temperature > 350 THEN <<"Heat stress risk">>
  ELSE IF input_data.temperature < 50 THEN <<"Cold stress risk">>
  ELSE <<>>

thermal_indicator(input_data) ==
  IF input_data.temperature > 350 THEN <<"Heat stress risk">>
  ELSE IF input_data.temperature < 100 THEN <<"Cold stress risk">>
  ELSE <<>>

humidity_indicator(input_data) ==
  IF input_data.humidity < 300 THEN <<"Low humidity stress">>
  ELSE IF input_data.humidity > 850 THEN <<"High humidity disease risk">>
  ELSE <<>>

\* variant: water stress is reported below 50 instead of below 30
moisture_indicator_dry50(input_data) ==
  IF input_data.soil_moisture < 500 THEN <<"Water stress">>
  ELSE IF input_data.soil_moisture > 900 THEN <<"Waterlogging risk">>
  ELSE <<>>

moisture_indicator(input_data) ==
  IF input_data.soil_moisture < 300 THEN <<"Water stress">>
  ELSE IF input_data.soil_moisture > 900 THEN <<"Waterlogging risk">>
  ELSE <<>>

\* generate_stress_indicators
generate_stress_indicators(input_data) ==
  vigor_indicator(input_data) \o thermal_indicator(input_data)
    \o humidity_indicator(input_data) \o moisture_indicator(input_data)

\* x in s, for a list s
InList(x, s) == \E i \in 1..Len(s) : s[i] = x

\* variant: the expert and inspection advice comes after the indicators' advice
generate_health_recommendations_late(input_data, health_status, stress_indicators) ==
  AppendIf(health_status = "excellent",
    AppendIf(health_status \in {"poor", "critical"},
      AppendIf(InList("High humidity disease risk", stress_indicators),
        AppendIf(InList("Low vegetation vigor detected", stress_indicators),
          AppendIf(InList("Water stress", stress_indicators),
            AppendIf(InList("Heat stress risk", stress_indicators), <<>>,
              <<"Increase irrigation frequency and consider shade protection">>),
            <<"Implement immediate irrigation schedule">>),
          <<"Check for nutrient deficiencies and pest issues",
            "Consider soil testing and fertilization">>),
        <<"Improve air circulation and consider fungicide application">>),
      <<"Immediate intervention required - consult agricultural expert",
        "Conduct thorough field inspection">>),
    <<"Maintain current management practices",
      "Continue regular monitoring">>)

\* generate_health_recommendations
generate_health_recommendations(input_data, health_status, stress_indicators) ==
  AppendIf(health_status = "excellent",
    AppendIf(InList("High humidity disease risk", stress_indicators),
      AppendIf(InList("Low vegetation vigor detected", stress_indicators),
        AppendIf(InList("Water stress", stress_indicators),
          AppendIf(InList("Heat stress risk", stress_indicators),
            AppendIf(health_status \in {"poor", "critical"}, <<>>,
              <<"Immediate intervention required - consult agricultural expert",
                "Conduct thorough field inspection">>),
            <<"Increase irrigation frequency and consider shade protection">>),
          <<"Implement immediate irrigation schedule">>),
        <<"Check for nutrient deficiencies and pest issues",
          "Consider soil testing and fertilization">>),
      <<"Improve air circulation and consider fungicide application">>),
    <<"Maintain current management practices",
      "Continue regular monitoring">>)

\* variant: the boundary 0.8 belongs to the band below it
HealthStatus_exclusive(health_score) ==
  IF FGt(health_score, F0_8) THEN "excellent"
  ELSE IF FGe(health_score, F0_65) THEN "good"
  ELSE IF FGe(health_score, F0_5) THEN "moderate"
  ELSE IF FGe(health_score, F0_3) THEN "poor"
  ELSE "critical"

\* analyze_crop_health, lines 103-113: the status of a score
HealthStatus(health_score) ==
  IF FGe(health_score, F0_8) THEN "excellent"
  ELSE IF FGe(health_score, F0_65) THEN "good"
  ELSE IF FGe(health_score, F0_5) THEN "moderate"
  ELSE IF FGe(health_score, F0_3) THEN "poor"
  ELSE "critical"

----------------------------------------------------------------------------
(* Inputs *)

\* acres of the grid of yield requests: 1 .. MaxAcres
MaxAcres == 2

\* the spec's example observation (spec.md, section 8)
ExampleField ==
  [crop |-> "wheat", soil_ph |-> 70, soil_moisture |-> 700, soil_nitrogen |-> 600,
   soil_phosphorus |-> 300, soil_potassium |-> 2000, temperature |-> 250,
   humidity |-> 600, rainfall |-> 7000, acres |-> 20]

\* one value in every branch of the yield rules, all combinations
YieldGrid ==
  [crop : {"wheat"}, soil_ph : {50, 55, 70, 80, 85}, soil_moisture : {300, 400, 700},
   soil_nitrogen : {400, 600}, soil_phosphorus : {100, 300},
   soil_potassium : {2000}, temperature : {250, 350, 400},
   humidity : {600}, rainfall : {2000, 3000, 7000},
   acres : {10 * a : a \in 1..MaxAcres}]

\* a field with every factor at its lowest
WorstField ==
  [crop |-> "wheat", soil_ph |-> 50, soil_moisture |-> 300, soil_nitrogen |-> 400,
   soil_phosphorus |-> 100, soil_potassium |-> 1000, temperature |-> 400,
   humidity |-> 600, rainfall |-> 2000, acres |-> 10]

\* the example with one field moved to a threshold, an end of its range or
\* outside its range; the worst field at, and just above, 5 acres
YieldProbes ==
  {[WorstField EXCEPT !.acres = v] : v \in {10, 50, 51}} \cup
  {[ExampleField EXCEPT !.soil_ph = v] : v \in {-10, 0, 60, 75, 140, 150}}
    \cup {[ExampleField EXCEPT !.soil_moisture = v] :
            v \in {-50, 0, 600, 800, 900, 1000, 1010}}
    \cup {[ExampleField EXCEPT !.temperature = v] : v \in {50, 100, 200, 300}}
    \cup {[ExampleField EXCEPT !.rainfall = v] : v \in {5000, 10000, 12000}}
    \cup {[ExampleField EXCEPT !.acres = v] : v \in {-10, 0, 1, 5, 60}}
    \cup {[ExampleField EXCEPT !.soil_nitrogen = 500, !.soil_phosphorus = 200,
                               !.soil_potassium = 1500, !.acres = v] :
            v \in {1, 5, 7, 10, 20, 30}}
    \cup {[ExampleField EXCEPT !.soil_nitrogen = 400, !.soil_phosphorus = 100,
                               !.soil_potassium = 1000]}

YieldBodies == YieldGrid \cup YieldProbes

\* one value in every branch of the health rules and of the stress checks
HealthGrid ==
  [crop : {"wheat"}, ndvi_index : {-10, 2, 4, 5, 6, 7},
   temperature : {0, 50, 100, 250, 600},
   humidity : {200, 300, 600, 900, 950},
   soil_moisture : {200, 300, 600, 950}]

ExampleHealth ==
  [crop |-> "wheat", ndvi_index |-> 5, temperature |-> 250, humidity |-> 600,
   soil_moisture |-> 600]

HealthProbes ==
  {[ExampleHealth EXCEPT !.ndvi_index = v] : v \in {-11, 1, 10, 11}}
    \cup {[ExampleHealth EXCEPT !.temperature = v] : v \in {-600, 200, 300, 350, 700}}
    \cup {[ExampleHealth EXCEPT !.humidity = v] : v \in {-50, 500, 700, 800, 850, 1100}}
    \cup {[ExampleHealth EXCEPT !.soil_moisture = v] : v \in {500, 800, 900}}

HealthBodies == HealthGrid \cup HealthProbes

\* what a cached model's predict call does: it raises, or returns a double
PredictFails == [called |-> TRUE, raised |-> TRUE]

Returns(v) == [called |-> TRUE, raised |-> FALSE, value |-> v]

YieldModelOutputs ==
  {Returns(v) : v \in {FromDec(39045, 3), FromDec(39996, 3), FromDec(40, 0),
                       FromDec(80, 0), FromDec(80004, 3)}}

\* LinearRegression is unbounded: the trained scores are clipped to [0,1], its
\* predictions are not
HealthModelOutputs ==
  {Returns(v) : v \in {FromDec(-25, 2), FromDec(29999, 5), FromDec(3, 1),
                       FromDec(5, 1), FromDec(65, 2), FromDec(79999, 5),
                       FromDec(8, 1), FromDec(12, 1)}}

\* the farmer_id query parameter of /alerts
FarmerIds == {1, 2}

\* conditions records around every threshold of the alert rules
ConditionRecords ==
  [temperature : {200, 250, 251, 350, 355, 400},
   humidity : {450, 800, 801, 900},
   soil_moisture : {100, 199, 200, 250, 300, 400},
   rainfall_forecast : {0},
   wind_speed : {100, 150, 151, 200}]

----------------------------------------------------------------------------
(* The server *)

VARIABLES
  ml_models_cache,   \* main.py: the names of the loaded models
  phase,             \* lifespan: "startup", "serving", "stopped"
  request,           \* the request being handled, or NoRequest
  model_call,        \* what the model's predict call did, or NoCall
  local,             \* the handler's locals when it returned, or NoLocal
  response,          \* its response, or NoResponse
  fitted,            \* per model name, what the unpickled estimator's predict does
  answers,           \* per request, the responses returned to it so far
  inflight,          \* per connection, the request in flight and its handler's frame
  users,             \* the users table: id -> row
  tokens,            \* the access tokens issued and not yet expired
  host,              \* the model files on disk and whether init_db has run
  farmers,           \* the farmers table: id -> row
  predictions,       \* the predictions table: id -> row
  alerts_table       \* the alerts table: id -> row

\* the variables of the repeated-call runs
det_vars == <<fitted, answers>>

\* the variables of the runs with several requests in flight
conc_vars == <<inflight>>

\* the variables of the authenticated routes
auth_vars == <<users, tokens>>

\* the variables of the runs that record what startup found on disk
start_vars == <<host>>

\* the tables behind the farmer and agronomist routes
store_vars == <<farmers, predictions, alerts_table>>

\* the variables the ML routes of a single-request run leave alone
other_vars == <<det_vars, conc_vars, auth_vars, start_vars, store_vars>>

vars == <<ml_models_cache, phase, request, model_call, local, response, other_vars>>

NoRequest == [op |-> "none"]
NoCall == [called |-> FALSE]
NoLocal == [strategy |-> "none"]
NoResponse == [status |-> 0]

ModelNames == {"yield_model", "crop_health_model"}
FileStates == {"absent", "loadable", "corrupt"}

\* variant: the crop-health model is loaded also after the yield model failed
LoadModels_resilient(yield_file, health_file) ==
  (IF yield_file = "loadable" THEN {"yield_model"} ELSE {})
    \cup (IF health_file = "loadable" THEN {"crop_health_model"} ELSE {})

\* main.py lifespan, lines 19-32: what the cache holds after loading
LoadModels(yield_file, health_file) ==
  IF yield_file = "corrupt" THEN {}
  ELSE (IF yield_file = "loadable" THEN {"yield_model"} ELSE {})
         \cup (IF health_file = "loadable" THEN {"crop_health_model"} ELSE {})

\* variant: the bounds themselves are rejected
YieldPredictionInput_exclusive(body) ==
  /\ 0 < body.soil_ph /\ body.soil_ph < 140
  /\ 0 < body.soil_moisture /\ body.soil_moisture < 1000

\* YieldPredictionInput: soil_ph in [0,14], soil_moisture in [0,100]
YieldPredictionInput(body) ==
  /\ 0 <= body.soil_ph /\ body.soil_ph <= 140
  /\ 0 <= body.soil_moisture /\ body.soil_moisture <= 1000

\* CropHealthInput: ndvi_index in [-1,1]
CropHealthInput(body) == -10 <= body.ndvi_index /\ body.ndvi_index <= 10

ValidationError == [status |-> 422]

\* round(prediction, 2): the model's prediction is a numpy.float64, the
\* rule-based one a Python float
RoundPrediction(strategy, prediction) ==
  IF strategy = "model" THEN NpRound(prediction, 2) ELSE PyRound(prediction, 2)

\* variant: the recommendations are decided on the rounded prediction
YieldOutput_rounded_first(input_data, strategy, prediction, confidence) ==
  [local    |-> [input_data |-> input_data,
                 strategy   |-> strategy,
                 prediction |-> prediction,
                 confidence |-> confidence],
   response |-> [status          |-> 200,
                 crop            |-> input_data.crop,
                 predicted_yield |-> RoundPrediction(strategy, prediction),
                 confidence      |-> PyRound(confidence, 3),
                 recommendations |->
                   generate_yield_recommendations(
                     input_data, RoundPrediction(strategy, prediction))]]

\* predict_yield, lines 58-67: the recommendations and the rounded output
YieldOutput(input_data, strategy, prediction, confidence) ==
  [local    |-> [input_data |-> input_data,
                 strategy   |-> strategy,
                 prediction |-> prediction,
                 confidence |-> confidence],
   response |-> [status          |-> 200,
                 crop            |-> input_data.crop,
                 predicted_yield |-> RoundPrediction(strategy, prediction),
                 confidence      |-> PyRound(confidence, 3),
                 recommendations |->
                   generate_yield_recommendations(input_data, prediction)]]

YieldFromRule(input_data, strategy, rule) ==
  YieldOutput(input_data, strategy, rule[1], rule[2])

\* variant: the failure of the model's predict call is surfaced as a 500
predict_yield_surfacing(models, input_data, outcome) ==
  IF "yield_model" \in models
    THEN IF ~outcome.raised
           THEN YieldOutput(input_data, "model", outcome.value, F0_85)
           ELSE [local |-> [strategy |-> "error"], response |-> [status |-> 500]]
    ELSE YieldFromRule(input_data, "rule", rule_based_yield_prediction(input_data))

\* predict_yield: [local, response]
predict_yield(models, input_data, outcome) ==
  IF "yield_model" \in models
    THEN IF ~outcome.raised
           THEN YieldOutput(input_data, "model", outcome.value, F0_85)
           ELSE YieldFromRule(input_data, "fallback",
                              rule_based_yield_prediction(input_data))
    ELSE YieldFromRule(input_data, "rule", rule_based_yield_prediction(input_data))

HealthReport(input_data, health_status, stress_indicators, confidence) ==
  [status            |-> 200,
   crop              |-> input_data.crop,
   health_status     |-> health_status,
   stress_indicators |-> stress_indicators,
   recommendations   |->
     generate_health_recommendations(input_data, health_status, stress_indicators),
   confidence        |-> PyRound(confidence, 3)]

\* variant: the indicators are left out when the score comes from the model
HealthOutput_model_silent(input_data, strategy, health_score, confidence) ==
  [local    |-> [input_data   |-> input_data,
                 strategy     |-> strategy,
                 health_score |-> health_score,
                 confidence   |-> confidence],
   response |-> HealthReport(input_data, HealthStatus(health_score),
                             IF strategy = "model" THEN <<>>
                             ELSE generate_stress_indicators(input_data),
                             confidence)]

\* analyze_crop_health, lines 103-125: status, indicators, recommendations
HealthOutput(input_data, strategy, health_score, confidence) ==
  [local    |-> [input_data   |-> input_data,
                 strategy     |-> strategy,
                 health_score |-> health_score,
                 confidence   |-> confidence],
   response |-> HealthReport(input_data, HealthStatus(health_score),
                             generate_stress_indicators(input_data), confidence)]

HealthFromRule(input_data, strategy, rule) ==
  HealthOutput(input_data, strategy, rule[1], rule[2])

\* analyze_crop_health: [local, response]
analyze_crop_health(models, input_data, outcome) ==
  IF "crop_health_model" \in models
    THEN IF ~outcome.raised
           THEN HealthOutput(input_data, "model", outcome.value, F0_8)
           ELSE HealthFromRule(input_data, "fallback",
                               rule_based_health_analysis(input_data))
    ELSE HealthFromRule(input_data, "rule", rule_based_health_analysis(input_data))

----------------------------------------------------------------------------
(* generate_alerts.  The numbers of a conditions record are held in tenths, *)
(* like the numbers of a request body.                                      *)

\* lines 147-153
mock_conditions ==
  [temperature |-> 355, humidity |-> 450, soil_moisture |-> 250,
   rainfall_forecast |-> 0, wind_speed |-> 200]

\* lines 156-169
heat_alert(conditions) ==
  IF conditions.temperature > 350
    THEN <<[type |-> "weather", severity |-> "high",
            title |-> "Heat Stress Warning",
            message |-> <<"Temperature is", conditions.temperature,
                          "C. Crops may experience heat stress.">>,
            recommendations |->
              <<"Increase irrigation frequency",
                "Consider shade netting for sensitive crops",
                "Monitor crops for wilting signs",
                "Harvest early morning if possible">>,
            priority |-> 1]>>
  ELSE <<>>

\* line 173
irrigation_severity(conditions) ==
  IF conditions.soil_moisture < 200 THEN "critical" ELSE "high"

\* lines 172-186
irrigation_alert(conditions) ==
  IF conditions.soil_moisture < 300
    THEN <<[type |-> "irrigation", severity |-> irrigation_severity(conditions),
            title |-> "Low Soil Moisture Alert",
            message |-> <<"Soil moisture is at", conditions.soil_moisture,
                          "%. Immediate irrigation recommended.">>,
            recommendations |->
              <<"Start irrigation immediately",
                "Check irrigation system for blockages",
                "Monitor soil moisture levels hourly",
                "Consider drip irrigation for efficiency">>,
            priority |-> IF irrigation_severity(conditions) = "critical"
                           THEN 1 ELSE 2]>>
  ELSE <<>>

\* variant: the pest alert is raised by high humidity alone
pest_alert_humid(conditions) ==
  IF conditions.humidity > 800
    THEN <<[type |-> "pest", severity |-> "medium",
            title |-> "Fungal Disease Risk",
            message |-> <<"High humidity and temperature create favorable conditions for fungal diseases.">>,
            recommendations |->
              <<"Apply preventive fungicide spray",
                "Improve air circulation around plants",
                "Reduce irrigation frequency temporarily",
                "Monitor leaves for early disease signs">>,
            priority |-> 3]>>
  ELSE <<>>

\* lines 189-202
pest_alert(conditions) ==
  IF conditions.humidity > 800 /\ conditions.temperature > 250
    THEN <<[type |-> "pest", severity |-> "medium",
            title |-> "Fungal Disease Risk",
            message |-> <<"High humidity and temperature create favorable conditions for fungal diseases.">>,
            recommendations |->
              <<"Apply preventive fungicide spray",
                "Improve air circulation around plants",
                "Reduce irrigation frequency temporarily",
                "Monitor leaves for early disease signs">>,
            priority |-> 3]>>
  ELSE <<>>

\* lines 205-218
wind_alert(conditions) ==
  IF conditions.wind_speed > 150
    THEN <<[type |-> "weather", severity |-> "medium",
            title |-> "High Wind Advisory",
            message |-> <<"Wind speed is", conditions.wind_speed,
                          "km/h. Protect vulnerable crops.">>,
            recommendations |->
              <<"Install windbreaks for young plants",
                "Secure support stakes and ties",
                "Postpone pesticide applications",
                "Check for physical crop damage after wind subsides">>,
            priority |-> 3]>>
  ELSE <<>>

\* lines 221-233
nutrient_alert ==
  [type |-> "disease", severity |-> "low",
   title |-> "Seasonal Nutrient Check",
   message |-> <<"Consider soil testing for optimal nutrient management.">>,
   recommendations |->
     <<"Schedule soil nutrient analysis",
       "Monitor crop color for nutrient deficiency signs",
       "Plan fertilization schedule",
       "Consider organic amendments">>,
   priority |-> 4]

\* lines 143-233: the alerts in the order they are appended
appended_alerts(conditions) ==
  heat_alert(conditions) \o irrigation_alert(conditions)
    \o pest_alert(conditions) \o wind_alert(conditions) \o <<nutrient_alert>>

InsertAt(sorted, alert, k) ==
  SubSeq(sorted, 1, k) \o <<alert>> \o SubSeq(sorted, k + 1, Len(sorted))

\* variant: the alert goes before the alerts of its own priority
InsertByPriority_before(sorted, alert) ==
  InsertAt(sorted, alert,
           Cardinality({i \in 1..Len(sorted) : sorted[i].priority < alert.priority}))

\* the alert goes behind every alert whose priority is not greater
InsertByPriority(sorted, alert) ==
  InsertAt(sorted, alert,
           Cardinality({i \in 1..Len(sorted) : sorted[i].priority <= alert.priority}))

RECURSIVE SortFirst(_, _)
SortFirst(alerts, n) ==
  IF n = 0 THEN <<>>
  ELSE InsertByPriority(SortFirst(alerts, n - 1), alerts[n])

\* line 236: alerts.sort(key=lambda x: x["priority"]); list.sort is stable
sort_by_priority(alerts) == SortFirst(alerts, Len(alerts))

\* line 244
high_priority_alerts(alerts) ==
  Cardinality({i \in 1..Len(alerts) : alerts[i].severity \in {"critical", "high"}})

\* lines 238-245
AlertsReport(farmer_id, conditions, alerts) ==
  [status |-> 200,
   farmer_id |-> farmer_id,
   conditions |-> conditions,
   alerts |-> alerts,
   total_alerts |-> Len(alerts),
   high_priority_alerts |-> high_priority_alerts(alerts)]

\* lines 143-245 for a conditions record: [local, response]
synthesize_alerts(farmer_id, conditions) ==
  [local    |-> [strategy |-> "rules", appended |-> appended_alerts(conditions)],
   response |-> AlertsReport(farmer_id, conditions,
                             sort_by_priority(appended_alerts(conditions)))]

\* generate_alerts: [local, response]
generate_alerts(farmer_id) == synthesize_alerts(farmer_id, mock_conditions)

\* the loaded model objects as get_model_info describes them
ModelType(model_name) ==
  IF model_name = "yield_model" THEN "RandomForestRegressor" ELSE "LinearRegression"

ModelFeatures(model_name) == IF model_name = "yield_model" THEN 9 ELSE 4

\* get_model_info: [local, response]
get_model_info(models) ==
  [local    |-> [strategy |-> "info"],
   response |-> [status |-> 200,
                 loaded_models |-> models,
                 model_details |->
                   [model_name \in models |->
                      [type |-> ModelType(model_name), loaded |-> TRUE,
                       features |-> ModelFeatures(model_name)]]]]

\* no estimator is unpickled
NotFitted == [loaded |-> FALSE]

\* the repeated-call runs have not started
DetIdle == fitted = [n \in ModelNames |-> NotFitted] /\ answers = <<>>

\* no connection is open
ConcIdle == inflight = <<>>

\* nobody has signed up
AuthIdle == users = <<>> /\ tokens = {}

\* what is on disk is not recorded
NoHost == [recorded |-> FALSE]

StartIdle == host = NoHost

\* the tables are empty
StoreIdle == farmers = <<>> /\ predictions = <<>> /\ alerts_table = <<>>

\* the handler returns: its locals and response, and what the model did
Returned(r, outcome) ==
  local' = r.local /\ response' = r.response /\ model_call' = outcome

\* the body fails validation: 422, the handler is not entered
Rejected == local' = NoLocal /\ response' = ValidationError /\ model_call' = NoCall

Init ==
  /\ ml_models_cache = {}
  /\ phase = "startup"
  /\ request = NoRequest
  /\ model_call = NoCall
  /\ local = NoLocal
  /\ response = NoResponse
  /\ DetIdle
  /\ ConcIdle
  /\ AuthIdle
  /\ StartIdle
  /\ StoreIdle

\* lifespan up to its yield: the models are loaded, the database initialised
LifespanStartup ==
  /\ phase = "startup"
  /\ \E yield_file \in FileStates, health_file \in FileStates :
       ml_models_cache' = LoadModels(yield_file, health_file)
  /\ phase' = "serving"
  /\ UNCHANGED <<request, model_call, local, response>>
  /\ UNCHANGED other_vars

\* a client posts a body to /predict-yield or /crop-health, or gets /alerts
\* or /model-info
Receive ==
  /\ phase = "serving"
  /\ request = NoRequest
  /\ \/ \E body \in YieldBodies : request' = [op |-> "predict_yield", body |-> body]
     \/ \E body \in HealthBodies : request' = [op |-> "crop_health", body |-> body]
     \/ \E farmer_id \in FarmerIds :
          request' = [op |-> "alerts", farmer_id |-> farmer_id]
     \/ request' = [op |-> "model_info"]
  /\ UNCHANGED <<ml_models_cache, phase, model_call, local, response>>
  /\ UNCHANGED other_vars

\* variant: a model whose predict call fails is evicted from the cache
PredictYield_evicting ==
  /\ request.op = "predict_yield"
  /\ response = NoResponse
  /\ IF YieldPredictionInput(request.body)
       THEN \E outcome \in (IF "yield_model" \in ml_models_cache
                              THEN YieldModelOutputs \cup {PredictFails}
                              ELSE {NoCall}) :
              /\ Returned(predict_yield(ml_models_cache, request.body, outcome),
                          outcome)
              /\ ml_models_cache' = IF outcome = PredictFails
                                      THEN ml_models_cache \ {"yield_model"}
                                      ELSE ml_models_cache
       ELSE Rejected /\ UNCHANGED ml_models_cache
  /\ UNCHANGED <<phase, request>>
  /\ UNCHANGED other_vars

PredictYield ==
  /\ request.op = "predict_yield"
  /\ response = NoResponse
  /\ IF YieldPredictionInput(request.body)
       THEN \E outcome \in (IF "yield_model" \in ml_models_cache
                              THEN YieldModelOutputs \cup {PredictFails}
                              ELSE {NoCall}) :
              Returned(predict_yield(ml_models_cache, request.body, outcome), outcome)
       ELSE Rejected
  /\ UNCHANGED <<ml_models_cache, phase, request>>
  /\ UNCHANGED other_vars

AnalyzeCropHealth ==
  /\ request.op = "crop_health"
  /\ response = NoResponse
  /\ IF CropHealthInput(request.body)
       THEN \E outcome \in (IF "crop_health_model" \in ml_models_cache
                              THEN HealthModelOutputs \cup {PredictFails}
                              ELSE {NoCall}) :
              Returned(analyze_crop_health(ml_models_cache, request.body, outcome),
                       outcome)
       ELSE Rejected
  /\ UNCHANGED <<ml_models_cache, phase, request>>
  /\ UNCHANGED other_vars

GenerateAlerts ==
  /\ request.op = "alerts"
  /\ response = NoResponse
  /\ Returned(generate_alerts(request.farmer_id), NoCall)
  /\ UNCHANGED <<ml_models_cache, phase, request>>
  /\ UNCHANGED other_vars

GetModelInfo ==
  /\ request.op = "model_info"
  /\ response = NoResponse
  /\ Returned(get_model_info(ml_models_cache), NoCall)
  /\ UNCHANGED <<ml_models_cache, phase, request>>
  /\ UNCHANGED other_vars

\* the response is sent and the handler's frame is gone
Deliver ==
  /\ response # NoResponse
  /\ request' = NoRequest
  /\ model_call' = NoCall
  /\ local' = NoLocal
  /\ response' = NoResponse
  /\ UNCHANGED <<ml_models_cache, phase>>
  /\ UNCHANGED other_vars

\* lifespan after its yield
LifespanShutdown ==
  /\ phase = "serving"
  /\ request = NoRequest
  /\ ml_models_cache' = {}
  /\ phase' = "stopped"
  /\ UNCHANGED <<request, model_call, local, response>>
  /\ UNCHANGED other_vars

Next ==
  \/ LifespanStartup
  \/ Receive
  \/ PredictYield
  \/ AnalyzeCropHealth
  \/ GenerateAlerts
  \/ GetModelInfo
  \/ Deliver
  \/ LifespanShutdown

Spec == Init /\ [][Next]_vars

-----------------------------------------------------------------------------
(* Startup with what is on disk recorded: each model file is absent, can be  *)
(* unpickled, or makes pickle.load raise.                                    *)

\* what the server can find when it starts; init_db has not run
Hosts ==
  [recorded : {TRUE}, yield_file : FileStates, health_file : FileStates,
   db_initialized : {FALSE}]

StartRequests ==
  {[op |-> "predict_yield", body |-> ExampleField],
   [op |-> "crop_health", body |-> ExampleHealth],
   [op |-> "alerts", farmer_id |-> 1],
   [op |-> "model_info"]}

StartInit ==
  /\ ml_models_cache = {}
  /\ phase = "startup"
  /\ request = NoRequest
  /\ model_call = NoCall
  /\ local = NoLocal
  /\ response = NoResponse
  /\ host \in Hosts
  /\ DetIdle
  /\ ConcIdle
  /\ AuthIdle
  /\ StoreIdle

\* lifespan up to its yield: the try block around both loads, then init_db
StartLifespan ==
  /\ phase = "startup"
  /\ ml_models_cache' = LoadModels(host.yield_file, host.health_file)
  /\ host' = [host EXCEPT !.db_initialized = TRUE]
  /\ phase' = "serving"
  /\ UNCHANGED <<request, model_call, local, response, det_vars, conc_vars,
                 auth_vars, store_vars>>

StartReceive ==
  /\ phase = "serving"
  /\ request = NoRequest
  /\ \E r \in StartRequests : request' = r
  /\ UNCHANGED <<ml_models_cache, phase, model_call, local, response>>
  /\ UNCHANGED other_vars

StartNext ==
  \/ StartLifespan
  \/ StartReceive
  \/ PredictYield
  \/ AnalyzeCropHealth
  \/ GenerateAlerts
  \/ GetModelInfo
  \/ Deliver
  \/ LifespanShutdown

\* uvicorn runs the lifespan to its yield before it accepts a request
StartFairness == WF_vars(StartLifespan)

StartSpec == StartInit /\ [][StartNext]_vars /\ StartFairness

----------------------------------------------------------------------------
(* Repeated calls in one server run: the estimators are unpickled once, at   *)
(* startup, and predict is a function of the estimator and the features.     *)

\* answers kept per request
MaxCalls == 2

DetRequests ==
  {[op |-> "predict_yield", body |-> body] :
     body \in {ExampleField, [ExampleField EXCEPT !.acres = 5]}}
    \cup {[op |-> "crop_health", body |-> ExampleHealth]}

\* what a pickled estimator can compute for the requests above
FittedModels(model_name) ==
  IF model_name = "yield_model"
    THEN [{r.body : r \in {q \in DetRequests : q.op = "predict_yield"}} ->
            {Returns(FromDec(39996, 3)), PredictFails}]
    ELSE [{r.body : r \in {q \in DetRequests : q.op = "crop_health"}} ->
            {Returns(FromDec(65, 2)), PredictFails}]

\* variant: an estimator that works once per input and raises afterwards
ModelPredict_once(model_name, body) ==
  IF \E r \in DOMAIN answers : r.body = body /\ answers[r] # <<>>
    THEN PredictFails ELSE fitted[model_name][body]

\* models[name].predict(features)[0] (or the exception it raises)
ModelPredict(model_name, body) == fitted[model_name][body]

\* the handler's answer is sent back and kept
Answered(r) ==
  /\ local' = r.local
  /\ response' = r.response
  /\ answers' = [answers EXCEPT ![request] = Append(@, r.response)]

DetInit ==
  /\ ml_models_cache = {}
  /\ phase = "startup"
  /\ request = NoRequest
  /\ model_call = NoCall
  /\ local = NoLocal
  /\ response = NoResponse
  /\ fitted = [n \in ModelNames |-> NotFitted]
  /\ answers = [r \in DetRequests |-> <<>>]
  /\ ConcIdle
  /\ AuthIdle
  /\ StartIdle
  /\ StoreIdle

\* lifespan up to its yield: pickle.load gives each cached name its estimator
DetStartup ==
  /\ phase = "startup"
  /\ \E yield_file \in FileStates, health_file \in FileStates :
       /\ ml_models_cache' = LoadModels(yield_file, health_file)
       /\ \E estimators \in [ModelNames -> UNION {FittedModels(n) : n \in ModelNames}] :
            /\ \A n \in ModelNames : estimators[n] \in FittedModels(n)
            /\ fitted' = [n \in ModelNames |->
                            IF n \in LoadModels(yield_file, health_file)
                              THEN estimators[n] ELSE NotFitted]
  /\ phase' = "serving"
  /\ UNCHANGED <<request, model_call, local, response, answers, conc_vars, auth_vars, start_vars, store_vars>>

DetReceive ==
  /\ phase = "serving"
  /\ request = NoRequest
  /\ \/ \E r \in DetRequests : Len(answers[r]) < MaxCalls /\ request' = r
     \/ request' = [op |-> "alerts", farmer_id |-> 1]
  /\ UNCHANGED <<ml_models_cache, phase, model_call, local, response, det_vars, conc_vars, auth_vars, start_vars, store_vars>>

DetPredictYield ==
  /\ request.op = "predict_yield"
  /\ response = NoResponse
  /\ model_call' = IF "yield_model" \in ml_models_cache
                     THEN ModelPredict("yield_model", request.body) ELSE NoCall
  /\ Answered(predict_yield(ml_models_cache, request.body, model_call'))
  /\ UNCHANGED <<ml_models_cache, phase, request, fitted, conc_vars, auth_vars, start_vars, store_vars>>

DetAnalyzeCropHealth ==
  /\ request.op = "crop_health"
  /\ response = NoResponse
  /\ model_call' = IF "crop_health_model" \in ml_models_cache
                     THEN ModelPredict("crop_health_model", request.body) ELSE NoCall
  /\ Answered(analyze_crop_health(ml_models_cache, request.body, model_call'))
  /\ UNCHANGED <<ml_models_cache, phase, request, fitted, conc_vars, auth_vars, start_vars, store_vars>>

DetNext ==
  \/ DetStartup
  \/ DetReceive
  \/ DetPredictYield
  \/ DetAnalyzeCropHealth
  \/ GenerateAlerts
  \/ Deliver
  \/ LifespanShutdown

DetSpec == DetInit /\ [][DetNext]_vars

----------------------------------------------------------------------------
(* Several requests in flight. The handlers are coroutines without an await  *)
(* in their body; they are split here at the model call, a finer             *)
(* interleaving than the event loop produces.                                *)

\* connections with a request in flight at the same time
MaxInflight == 2

Slots == 1..MaxInflight

IdleFrame == [pc |-> "idle"]

ConcRequests == DetRequests \cup {[op |-> "alerts", farmer_id |-> 1]}

\* variant: input_data is kept in a module-level name that a later request
\* of the same route overwrites
InputOf_shared(slot) ==
  IF \E other \in Slots \ {slot} :
       /\ inflight[other].pc # "idle"
       /\ inflight[other].request.op = inflight[slot].request.op
    THEN inflight[CHOOSE other \in Slots \ {slot} :
                    /\ inflight[other].pc # "idle"
                    /\ inflight[other].request.op = inflight[slot].request.op
                 ].request.body
    ELSE inflight[slot].request.body

\* input_data: the parameter of the handler's own call
InputOf(slot) == inflight[slot].request.body

\* the name of the model a route uses
ModelOf(op) == IF op = "predict_yield" THEN "yield_model" ELSE "crop_health_model"

\* the handler of a prediction route, from the model call on: [local, response]
HandlerOf(op, models, input_data, outcome) ==
  IF op = "predict_yield" THEN predict_yield(models, input_data, outcome)
  ELSE analyze_crop_health(models, input_data, outcome)

ConcInit ==
  /\ ml_models_cache = {}
  /\ phase = "startup"
  /\ request = NoRequest
  /\ model_call = NoCall
  /\ local = NoLocal
  /\ response = NoResponse
  /\ fitted = [n \in ModelNames |-> NotFitted]
  /\ answers = <<>>
  /\ inflight = [slot \in Slots |-> IdleFrame]
  /\ AuthIdle
  /\ StartIdle
  /\ StoreIdle

ConcReceive(slot) ==
  /\ phase = "serving"
  /\ inflight[slot].pc = "idle"
  /\ \E r \in ConcRequests :
       inflight' = [inflight EXCEPT ![slot] = [pc |-> "received", request |-> r]]
  /\ UNCHANGED <<ml_models_cache, phase, request, model_call, local, response, det_vars, auth_vars, start_vars, store_vars>>

\* lines 31-56 and 81-101: the features are built and the model is called
ConcCallModel(slot) ==
  /\ inflight[slot].pc = "received"
  /\ inflight[slot].request.op \in {"predict_yield", "crop_health"}
  /\ inflight' = [inflight EXCEPT ![slot] =
       [pc |-> "called", request |-> @.request,
        outcome |-> IF ModelOf(@.request.op) \in ml_models_cache
                      THEN ModelPredict(ModelOf(@.request.op), InputOf(slot))
                      ELSE NoCall]]
  /\ UNCHANGED <<ml_models_cache, phase, request, model_call, local, response, det_vars, auth_vars, start_vars, store_vars>>

\* lines 58-67 and 103-125: the rest of the handler, up to its return
ConcRespond(slot) ==
  /\ inflight[slot].pc = "called"
  /\ inflight' = [inflight EXCEPT ![slot] =
       [pc |-> "returned", request |-> @.request,
        response |-> HandlerOf(@.request.op, ml_models_cache, InputOf(slot),
                               @.outcome).response]]
  /\ UNCHANGED <<ml_models_cache, phase, request, model_call, local, response, det_vars, auth_vars, start_vars, store_vars>>

ConcAlerts(slot) ==
  /\ inflight[slot].pc = "received"
  /\ inflight[slot].request.op = "alerts"
  /\ inflight' = [inflight EXCEPT ![slot] =
       [pc |-> "returned", request |-> @.request,
        response |-> generate_alerts(@.request.farmer_id).response]]
  /\ UNCHANGED <<ml_models_cache, phase, request, model_call, local, response, det_vars, auth_vars, start_vars, store_vars>>

ConcDeliver(slot) ==
  /\ inflight[slot].pc = "returned"
  /\ inflight' = [inflight EXCEPT ![slot] = IdleFrame]
  /\ UNCHANGED <<ml_models_cache, phase, request, model_call, local, response, det_vars, auth_vars, start_vars, store_vars>>

ConcNext ==
  \/ DetStartup
  \/ \E slot \in Slots : ConcReceive(slot)
  \/ \E slot \in Slots : ConcCallModel(slot)
  \/ \E slot \in Slots : ConcRespond(slot)
  \/ \E slot \in Slots : ConcAlerts(slot)
  \/ \E slot \in Slots : ConcDeliver(slot)

ConcSpec == ConcInit /\ [][ConcNext]_vars

----------------------------------------------------------------------------
(* Authentication and the role-gated routers. Each account of the users      *)
(* table was created by signup (is_active = True); is_active is changed in   *)
(* the datastore, outside the API. The datastore is taken to be reachable.   *)

\* schemas.py UserRole
UserRoles == {"farmer", "agronomist", "researcher"}

\* the routers: the three role-gated ones and the ML router
Areas == UserRoles \cup {"ml"}

\* hashlib.sha256(password.encode()).hexdigest(), without collisions
hash_password(password) == <<"sha256", password>>

verify_password(plain_password, hashed_password) ==
  hash_password(plain_password) = hashed_password

\* the rows signup has inserted: one account per role
SignedUp ==
  (1 :> [id |-> 1, email |-> "farmer@farm.example", role |-> "farmer",
         password_hash |-> hash_password("pw-farmer"), is_active |-> TRUE])
  @@ (2 :> [id |-> 2, email |-> "agro@farm.example", role |-> "agronomist",
            password_hash |-> hash_password("pw-agro"), is_active |-> TRUE])
  @@ (3 :> [id |-> 3, email |-> "res@farm.example", role |-> "researcher",
            password_hash |-> hash_password("pw-res"), is_active |-> TRUE])

\* the credentials clients post to /login
Emails == {"farmer@farm.example", "agro@farm.example", "res@farm.example", "nobody@farm.example"}
Passwords == {"pw-farmer", "pw-agro", "pw-res", "wrong"}

\* the claims of the JWT (its expiry is kept in tokens)
create_access_token(user) == [sub |-> user.id, role |-> user.role]

\* the bearer tokens a client may present
BearerTokens == {create_access_token(SignedUp[id]) : id \in DOMAIN SignedUp}

NoUser == [id |-> 0]

Unauthorized(detail) == [status |-> 401, detail |-> detail]

\* get_current_user: the row of the token's subject, or 401
get_current_user(token) ==
  IF token \notin tokens
    THEN [user |-> NoUser, error |-> Unauthorized("Invalid authentication credentials")]
  ELSE IF token.sub \notin DOMAIN users
    THEN [user |-> NoUser, error |-> Unauthorized("User not found")]
  ELSE [user |-> users[token.sub], error |-> NoResponse]

Forbidden(detail) == [status |-> 403, detail |-> detail]

\* variant: agronomists pass the farmer gate as well
require_farmer_role_lenient(current_user) ==
  IF current_user.role \notin {"farmer", "agronomist"}
    THEN Forbidden("Only farmers can access this endpoint") ELSE NoResponse

\* require_farmer_role: the 403 it raises, or NoResponse when it returns
require_farmer_role(current_user) ==
  IF current_user.role # "farmer"
    THEN Forbidden("Only farmers can access this endpoint") ELSE NoResponse

require_agronomist_role(current_user) ==
  IF current_user.role # "agronomist"
    THEN Forbidden("Only agronomists can access this endpoint") ELSE NoResponse

require_researcher_role(current_user) ==
  IF current_user.role # "researcher"
    THEN Forbidden("Only researchers can access this endpoint") ELSE NoResponse

\* the role dependency of a router; the ML router has none
RoleGate(area, current_user) ==
  IF area = "farmer" THEN require_farmer_role(current_user)
  ELSE IF area = "agronomist" THEN require_agronomist_role(current_user)
  ELSE IF area = "researcher" THEN require_researcher_role(current_user)
  ELSE NoResponse

\* what the body of a role-gated handler answers once it is entered, where
\* it reads or writes the datastore: found, not found, failed
BodyStatuses == {200, 404, 500}

\* the handler's frame: its current_user and whether its body was entered
AuthLocal(current_user, body_entered) ==
  [strategy |-> "auth", current_user |-> current_user, body_entered |-> body_entered]

\* a route behind its dependencies: [local, response]
Route(area, auth, body_status) ==
  IF auth.error # NoResponse
    THEN [local |-> AuthLocal(NoUser, FALSE), response |-> auth.error]
  ELSE IF RoleGate(area, auth.user) # NoResponse
    THEN [local |-> AuthLocal(auth.user, FALSE), response |-> RoleGate(area, auth.user)]
  ELSE [local |-> AuthLocal(auth.user, TRUE), response |-> [status |-> body_status]]

TokenResponse(user) ==
  [status |-> 200, access_token |-> create_access_token(user), token_type |-> "bearer"]

\* login, lines 140-180, for the rows result.data of the email lookup
LoginFound(rows, user_credentials) ==
  IF rows = {} THEN Unauthorized("Invalid email or password")
  ELSE IF ~verify_password(user_credentials.password,
                           users[CHOOSE id \in rows : TRUE].password_hash)
    THEN Unauthorized("Invalid email or password")
  ELSE IF ~users[CHOOSE id \in rows : TRUE].is_active
    THEN Unauthorized("Account is inactive")
  ELSE TokenResponse(users[CHOOSE id \in rows : TRUE])

\* login: [local, response]
login(user_credentials) ==
  [local    |-> AuthLocal(NoUser, TRUE),
   response |-> LoginFound({id \in DOMAIN users : users[id].email = user_credentials.email},
                           user_credentials)]

\* refresh_token: [local, response]
refresh_token(auth) ==
  IF auth.error # NoResponse
    THEN [local |-> AuthLocal(NoUser, FALSE), response |-> auth.error]
  ELSE [local |-> AuthLocal(auth.user, TRUE), response |-> TokenResponse(auth.user)]

\* the token of a 200 answer of /login or /refresh reaches the client
Issued(r) ==
  tokens' = IF r.response.status = 200 THEN tokens \cup {r.response.access_token}
            ELSE tokens

AuthInit ==
  /\ ml_models_cache = {}
  /\ phase = "serving"
  /\ request = NoRequest
  /\ model_call = NoCall
  /\ local = NoLocal
  /\ response = NoResponse
  /\ DetIdle
  /\ ConcIdle
  /\ StartIdle
  /\ StoreIdle
  /\ users = SignedUp
  /\ tokens = {}

AuthReceive ==
  /\ phase = "serving"
  /\ request = NoRequest
  /\ \/ \E email \in Emails, password \in Passwords :
          request' = [op |-> "login", email |-> email, password |-> password]
     \/ \E token \in BearerTokens : request' = [op |-> "refresh", token |-> token]
     \/ \E area \in Areas, token \in BearerTokens :
          request' = [op |-> "route", area |-> area, token |-> token]
  /\ UNCHANGED <<ml_models_cache, phase, model_call, local, response, other_vars>>

Login ==
  /\ request.op = "login"
  /\ response = NoResponse
  /\ Returned(login(request), NoCall)
  /\ Issued(login(request))
  /\ UNCHANGED <<ml_models_cache, phase, request, users, det_vars, conc_vars, start_vars, store_vars>>

RefreshToken ==
  /\ request.op = "refresh"
  /\ response = NoResponse
  /\ Returned(refresh_token(get_current_user(request.token)), NoCall)
  /\ Issued(refresh_token(get_current_user(request.token)))
  /\ UNCHANGED <<ml_models_cache, phase, request, users, det_vars, conc_vars, start_vars, store_vars>>

\* a handler of the farmer router
FarmerRoute ==
  /\ request.op = "route"
  /\ request.area = "farmer"
  /\ response = NoResponse
  /\ \E body_status \in BodyStatuses :
       Returned(Route("farmer", get_current_user(request.token), body_status), NoCall)
  /\ UNCHANGED <<ml_models_cache, phase, request, other_vars>>

\* a handler of the agronomist router
AgronomistRoute ==
  /\ request.op = "route"
  /\ request.area = "agronomist"
  /\ response = NoResponse
  /\ \E body_status \in BodyStatuses :
       Returned(Route("agronomist", get_current_user(request.token), body_status),
                NoCall)
  /\ UNCHANGED <<ml_models_cache, phase, request, other_vars>>

\* a handler of the researcher router
ResearcherRoute ==
  /\ request.op = "route"
  /\ request.area = "researcher"
  /\ response = NoResponse
  /\ \E body_status \in BodyStatuses :
       Returned(Route("researcher", get_current_user(request.token), body_status),
                NoCall)
  /\ UNCHANGED <<ml_models_cache, phase, request, other_vars>>

\* a handler of the ML router, its body summarised by its status
MlRoute ==
  /\ request.op = "route"
  /\ request.area = "ml"
  /\ response = NoResponse
  /\ \E body_status \in {200, 422, 500} :
       Returned(Route("ml", get_current_user(request.token), body_status), NoCall)
  /\ UNCHANGED <<ml_models_cache, phase, request, other_vars>>

\* is_active is changed in the datastore
SetActive ==
  /\ \E id \in DOMAIN users :
       users' = [users EXCEPT ![id].is_active = ~@]
  /\ UNCHANGED <<ml_models_cache, phase, request, model_call, local, response,
                 tokens, det_vars, conc_vars, start_vars, store_vars>>

\* ACCESS_TOKEN_EXPIRE_MINUTES after it was issued a token is refused
Expire ==
  /\ \E token \in tokens : tokens' = tokens \ {token}
  /\ UNCHANGED <<ml_models_cache, phase, request, model_call, local, response,
                 users, det_vars, conc_vars, start_vars, store_vars>>

AuthNext ==
  \/ AuthReceive
  \/ Login
  \/ RefreshToken
  \/ FarmerRoute
  \/ AgronomistRoute
  \/ ResearcherRoute
  \/ MlRoute
  \/ Deliver
  \/ SetActive
  \/ Expire

AuthSpec == AuthInit /\ [][AuthNext]_vars

-----------------------------------------------------------------------------
(* The farmer and agronomist routes that write the predictions and alerts    *)
(* tables.  A table is the sequence of its rows in the order of their        *)
(* insertion: the id of a row is its position, and created_at grows with it. *)
(* No route deletes a row.  The caller of a request is the users row that    *)
(* get_current_user has returned for its token.                              *)

\* rows the predictions table may hold
MaxPredictions == 2

\* the accounts: two farmers with a profile, a farmer whose profile insert
\* failed at signup, an agronomist and a researcher
Registered ==
  SignedUp
  @@ (4 :> [id |-> 4, email |-> "farmer2@farm.example", role |-> "farmer",
            password_hash |-> hash_password("pw-farmer2"), is_active |-> TRUE])
  @@ (5 :> [id |-> 5, email |-> "farmer3@farm.example", role |-> "farmer",
            password_hash |-> hash_password("pw-farmer3"), is_active |-> TRUE])

\* signup, lines 112-119: the profile of a farmer
farmer_data(id, user_id) ==
  [id |-> id, user_id |-> user_id, location |-> "", crops |-> "[]", acres |-> 0,
   water_level |-> 0]

Profiles == <<farmer_data(1, 1), farmer_data(2, 4)>>

\* what an insert does: the row is stored and returned, the datastore answers
\* with no row and has stored none, or the call raises; an update is done
\* ("stored") or raises
WriteOutcomes == {"stored", "no_row", "raised"}

\* schemas.py FieldData
FieldData(body) ==
  /\ 0 <= body.soil_ph /\ body.soil_ph <= 140
  /\ 0 <= body.soil_moisture /\ body.soil_moisture <= 1000
  /\ 0 <= body.soil_nitrogen
  /\ 0 <= body.soil_phosphorus
  /\ 0 <= body.soil_potassium
  /\ -500 <= body.temperature /\ body.temperature <= 600
  /\ 0 <= body.humidity /\ body.humidity <= 1000
  /\ 0 <= body.rainfall
  /\ 0 < body.acres

\* the field readings farmers post: soil moisture 15, 20 and 30 with soil
\* nitrogen 40, 50 and 40, and one with a soil moisture out of range
FieldReadings ==
  {[ExampleField EXCEPT !.soil_moisture = 150, !.soil_nitrogen = 400],
   [ExampleField EXCEPT !.soil_moisture = 200, !.soil_nitrogen = 500],
   [ExampleField EXCEPT !.soil_moisture = 300, !.soil_nitrogen = 400],
   [ExampleField EXCEPT !.soil_moisture = 1010]}

\* the handler made no write
NoWrite == [written |-> FALSE]

\* the handler's frame, and what its writes did
StoreLocal(current_user, farmer_id, body_entered, store) ==
  [strategy |-> "store", current_user |-> current_user, farmer_id |-> farmer_id,
   body_entered |-> body_entered, store |-> store]

HttpError(status_code, detail) == [status |-> status_code, detail |-> detail]

\* a handler result that leaves the tables as they are
Unchanged(local_frame, answer, predictions_rows, alert_rows) ==
  [local |-> local_frame, response |-> answer,
   predictions |-> predictions_rows, alerts |-> alert_rows]

\* supabase.table("farmers").select("id").eq("user_id", current_user["id"])
farmer_result(farmer_rows, current_user) ==
  {id \in DOMAIN farmer_rows : farmer_rows[id].user_id = current_user.id}

\* lines 144-147
mock_prediction == [prediction |-> FromDec(755, 1), confidence |-> F0_85]

\* lines 150-157, with the defaults of the table's columns
prediction_data(id, farmer_id, field_data) ==
  [id |-> id, farmer_id |-> farmer_id, crop |-> field_data.crop,
   prediction |-> mock_prediction.prediction,
   confidence |-> mock_prediction.confidence,
   input_data |-> field_data, model_version |-> "1.0",
   validated_by_agronomist |-> FALSE, agronomist_comments |-> "None"]

\* variant: a soil moisture of exactly 20 is of high severity too
field_irrigation_severity_inclusive(field_data) ==
  IF field_data.soil_moisture <= 200 THEN "high" ELSE "medium"

\* line 177
field_irrigation_severity(field_data) ==
  IF field_data.soil_moisture < 200 THEN "high" ELSE "medium"

\* lines 174-181, with the defaults of the table's columns
field_irrigation_alert(id, farmer_id, field_data) ==
  [id |-> id, farmer_id |-> farmer_id, alert_type |-> "irrigation",
   severity |-> field_irrigation_severity(field_data),
   title |-> "Low Soil Moisture Detected",
   message |-> <<"Soil moisture is at", field_data.soil_moisture,
                 "%. Consider irrigation.">>,
   recommendations |-> <<"Increase irrigation frequency", "Check irrigation system",
                         "Monitor soil moisture daily">>,
   is_read |-> FALSE, is_resolved |-> FALSE]

\* lines 187-194, with the defaults of the table's columns
field_nitrogen_alert(id, farmer_id, field_data) ==
  [id |-> id, farmer_id |-> farmer_id, alert_type |-> "disease",
   severity |-> "medium",
   title |-> "Low Nitrogen Levels",
   message |-> <<"Soil nitrogen is at", field_data.soil_nitrogen,
                 "ppm. Consider fertilization.">>,
   recommendations |-> <<"Apply nitrogen fertilizer", "Consider organic compost",
                         "Test soil again in 2 weeks">>,
   is_read |-> FALSE, is_resolved |-> FALSE]

FieldDataFailed == HttpError(500, "Failed to add field data")

\* lines 199-205
FieldDataStored(frame, prediction_row, generated, predictions_rows, alert_rows) ==
  [local |-> frame,
   response |-> [status |-> 200,
                 message |-> "Field data added and prediction generated successfully",
                 data |-> [prediction |-> prediction_row,
                           alerts_generated |-> generated]],
   predictions |-> predictions_rows, alerts |-> alert_rows]

\* lines 186-197: the nitrogen alert
nitrogen_step(frame, field_data, generated, predictions_rows, alert_rows, store) ==
  IF field_data.soil_nitrogen < 500
    THEN IF store.nitrogen = "raised"
           THEN Unchanged(frame, FieldDataFailed, predictions_rows, alert_rows)
           ELSE FieldDataStored(
                  frame, predictions_rows[Len(predictions_rows)],
                  Append(generated, "Low nitrogen alert generated"),
                  predictions_rows,
                  IF store.nitrogen = "stored"
                    THEN Append(alert_rows,
                                field_nitrogen_alert(Len(alert_rows) + 1,
                                                     frame.farmer_id, field_data))
                    ELSE alert_rows)
    ELSE FieldDataStored(frame, predictions_rows[Len(predictions_rows)], generated,
                         predictions_rows, alert_rows)

\* lines 172-185: the irrigation alert
irrigation_step(frame, field_data, predictions_rows, alert_rows, store) ==
  IF field_data.soil_moisture < 300
    THEN IF store.irrigation = "raised"
           THEN Unchanged(frame, FieldDataFailed, predictions_rows, alert_rows)
           ELSE nitrogen_step(
                  frame, field_data, <<"Low soil moisture alert generated">>,
                  predictions_rows,
                  IF store.irrigation = "stored"
                    THEN Append(alert_rows,
                                field_irrigation_alert(Len(alert_rows) + 1,
                                                       frame.farmer_id, field_data))
                    ELSE alert_rows,
                  store)
    ELSE nitrogen_step(frame, field_data, <<>>, predictions_rows, alert_rows, store)

\* lines 163-169: the prediction insert
prediction_step(frame, field_data, predictions_rows, alert_rows, store) ==
  IF store.prediction = "raised"
    THEN Unchanged(frame, FieldDataFailed, predictions_rows, alert_rows)
  ELSE IF store.prediction = "no_row"
    THEN Unchanged(frame, HttpError(500, "Failed to store prediction"),
                   predictions_rows, alert_rows)
  ELSE irrigation_step(
         frame, field_data,
         Append(predictions_rows,
                prediction_data(Len(predictions_rows) + 1, frame.farmer_id, field_data)),
         alert_rows, store)

\* add_field_data behind its dependency and the validation of its body:
\* [local, response, predictions, alerts]
add_field_data(farmer_rows, predictions_rows, alert_rows, current_user, field_data, store) ==
  IF require_farmer_role(current_user) # NoResponse
    THEN Unchanged(StoreLocal(current_user, 0, FALSE, NoWrite),
                   require_farmer_role(current_user), predictions_rows, alert_rows)
  ELSE IF ~FieldData(field_data)
    THEN Unchanged(StoreLocal(current_user, 0, FALSE, NoWrite), ValidationError,
                   predictions_rows, alert_rows)
  ELSE IF farmer_result(farmer_rows, current_user) = {}
    THEN Unchanged(StoreLocal(current_user, 0, TRUE, NoWrite),
                   HttpError(404, "Farmer profile not found"),
                   predictions_rows, alert_rows)
  ELSE prediction_step(
         StoreLocal(current_user,
                    CHOOSE id \in farmer_result(farmer_rows, current_user) : TRUE,
                    TRUE, store),
         field_data, predictions_rows, alert_rows, store)

\* variant: the alert is looked up by its id alone
alert_update_rows_any_farmer(alert_rows, alert_id, farmer_id) ==
  {id \in DOMAIN alert_rows : alert_rows[id].id = alert_id}

\* lines 316-318: .eq("id", alert_id).eq("farmer_id", farmer_id)
alert_update_rows(alert_rows, alert_id, farmer_id) ==
  {id \in DOMAIN alert_rows :
     alert_rows[id].id = alert_id /\ alert_rows[id].farmer_id = farmer_id}

\* lines 316-326, for the rows the update matches
mark_read_step(frame, rows, predictions_rows, alert_rows, store) ==
  IF store.update = "raised"
    THEN Unchanged(frame, HttpError(500, "Failed to mark alert as read"),
                   predictions_rows, alert_rows)
  ELSE IF rows = {}
    THEN Unchanged(frame, HttpError(404, "Alert not found"),
                   predictions_rows, alert_rows)
  ELSE [local |-> frame,
        response |-> [status |-> 200, message |-> "Alert marked as read"],
        predictions |-> predictions_rows,
        alerts |-> [id \in DOMAIN alert_rows |->
                      IF id \in rows THEN [alert_rows[id] EXCEPT !.is_read = TRUE]
                      ELSE alert_rows[id]]]

\* mark_alert_as_read behind its dependency: [local, response, predictions,
\* alerts]; farmer_result.data[0] raises IndexError for a farmer without profile
mark_alert_as_read(farmer_rows, predictions_rows, alert_rows, current_user, alert_id, store) ==
  IF require_farmer_role(current_user) # NoResponse
    THEN Unchanged(StoreLocal(current_user, 0, FALSE, NoWrite),
                   require_farmer_role(current_user), predictions_rows, alert_rows)
  ELSE IF farmer_result(farmer_rows, current_user) = {}
    THEN Unchanged(StoreLocal(current_user, 0, TRUE, NoWrite),
                   HttpError(500, "Failed to mark alert as read"),
                   predictions_rows, alert_rows)
  ELSE mark_read_step(
         StoreLocal(current_user,
                    CHOOSE id \in farmer_result(farmer_rows, current_user) : TRUE,
                    TRUE, store),
         alert_update_rows(alert_rows, alert_id,
                           CHOOSE id \in farmer_result(farmer_rows, current_user) : TRUE),
         predictions_rows, alert_rows, store)

\* no corrected_value is given
None == [given |-> FALSE]

Some(v) == [given |-> TRUE, value |-> v]

\* schemas.py PredictionValidation, for the fields of a request
PredictionValidations(ids) ==
  [prediction_id : ids, is_valid : BOOLEAN, comments : {"checked"},
   corrected_value : {None, Some(F80)}]

Corrects(validation) == ~validation.is_valid /\ validation.corrected_value.given

\* variant: the flag is the agronomist's verdict
update_data_verdict(row, validation) ==
  [row EXCEPT
     !.validated_by_agronomist = validation.is_valid,
     !.agronomist_comments = validation.comments,
     !.prediction = IF Corrects(validation) THEN validation.corrected_value.value
                    ELSE @]

\* lines 174-182: the row after the update
update_data(row, validation) ==
  [row EXCEPT
     !.validated_by_agronomist = TRUE,
     !.agronomist_comments =
        IF Corrects(validation)
          THEN <<validation.comments, "(Original:", validation.corrected_value.value,
                 ", Corrected by agronomist)">>
        ELSE validation.comments,
     !.prediction = IF Corrects(validation) THEN validation.corrected_value.value
                    ELSE @]

\* lines 185-201, for the rows the update matches
validate_step(frame, rows, validation, predictions_rows, alert_rows, store) ==
  IF store.update = "raised"
    THEN Unchanged(frame, HttpError(500, "Failed to validate prediction"),
                   predictions_rows, alert_rows)
  ELSE IF rows = {}
    THEN Unchanged(frame, HttpError(404, "Prediction not found"),
                   predictions_rows, alert_rows)
  ELSE [local |-> frame,
        response |->
          [status |-> 200, message |-> "Prediction validated successfully",
           data |-> [prediction_id |-> validation.prediction_id,
                     is_valid |-> validation.is_valid,
                     updated_prediction |->
                       update_data(predictions_rows[validation.prediction_id],
                                   validation)]],
        predictions |-> [id \in DOMAIN predictions_rows |->
                           IF id \in rows
                             THEN update_data(predictions_rows[id], validation)
                           ELSE predictions_rows[id]],
        alerts |-> alert_rows]

\* validate_prediction behind its dependency: [local, response, predictions,
\* alerts]
validate_prediction(predictions_rows, alert_rows, current_user, validation, store) ==
  IF require_agronomist_role(current_user) # NoResponse
    THEN Unchanged(StoreLocal(current_user, 0, FALSE, NoWrite),
                   require_agronomist_role(current_user), predictions_rows, alert_rows)
  ELSE validate_step(
         StoreLocal(current_user, 0, TRUE, store),
         {id \in DOMAIN predictions_rows :
            predictions_rows[id].id = validation.prediction_id},
         validation, predictions_rows, alert_rows, store)

\* the ids in s from the greatest down
RECURSIVE Descending(_)
Descending(s) ==
  IF s = {} THEN <<>>
  ELSE <<CHOOSE id \in s : \A other \in s : other <= id>>
         \o Descending(s \ {CHOOSE id \in s : \A other \in s : other <= id})

\* the first n elements of a list
Limit(list, n) == SubSeq(list, 1, IF n < Len(list) THEN n ELSE Len(list))

\* lines 132-136: .eq("validated_by_agronomist", False)
\*                .order("created_at", desc=True).limit(limit)
pending_result(predictions_rows, limit) ==
  Limit(Descending({id \in DOMAIN predictions_rows :
                      ~predictions_rows[id].validated_by_agronomist}),
        limit)

\* lines 138-154: one entry of the answer
pending_entry(pred, farmer_rows) ==
  [id |-> pred.id, crop |-> pred.crop, prediction |-> pred.prediction,
   confidence |-> pred.confidence,
   farmer |-> [id |-> farmer_rows[pred.farmer_id].id,
               name |-> Registered[farmer_rows[pred.farmer_id].user_id].email,
               location |-> farmer_rows[pred.farmer_id].location],
   input_data |-> pred.input_data]

\* get_pending_predictions behind its dependency: [local, response,
\* predictions, alerts]
get_pending_predictions(farmer_rows, predictions_rows, alert_rows, current_user, limit) ==
  IF require_agronomist_role(current_user) # NoResponse
    THEN Unchanged(StoreLocal(current_user, 0, FALSE, NoWrite),
                   require_agronomist_role(current_user), predictions_rows, alert_rows)
  ELSE Unchanged(
         StoreLocal(current_user, 0, TRUE, NoWrite),
         [status |-> 200,
          predictions |->
            [i \in DOMAIN pending_result(predictions_rows, limit) |->
               pending_entry(predictions_rows[pending_result(predictions_rows, limit)[i]],
                             farmer_rows)],
          total_count |-> Len(pending_result(predictions_rows, limit))],
         predictions_rows, alert_rows)

\* the limit query parameter: its default, and one that cuts the list
Limits == {1, 50}

\* the requests to /field-data: each farmer with a profile posts each
\* reading; the farmer without profile and the agronomist post one
FieldRequests ==
  {[op |-> "add_field_data", caller |-> caller, field_data |-> field_data] :
     caller \in {1, 4}, field_data \in FieldReadings}
  \cup {[op |-> "add_field_data", caller |-> caller, field_data |-> ExampleField] :
          caller \in {2, 5}}

\* the requests to /alerts/{alert_id}/read with n alerts stored
ReadRequests(n) ==
  {[op |-> "mark_alert_as_read", caller |-> caller, alert_id |-> alert_id] :
     caller \in {1, 4}, alert_id \in 1..(n + 1)}
  \cup {[op |-> "mark_alert_as_read", caller |-> caller, alert_id |-> 1] :
          caller \in {2, 5}}

\* the requests to /predictions/validate with n predictions stored
ValidationRequests(n) ==
  {[op |-> "validate_prediction", caller |-> 2, validation |-> validation] :
     validation \in PredictionValidations(1..(n + 1))}
  \cup {[op |-> "validate_prediction", caller |-> 1,
         validation |-> [prediction_id |-> 1, is_valid |-> TRUE,
                         comments |-> "checked", corrected_value |-> None]]}

\* the requests to /predictions/pending
PendingRequests ==
  {[op |-> "get_pending_predictions", caller |-> 2, limit |-> limit] :
     limit \in Limits}
  \cup {[op |-> "get_pending_predictions", caller |-> 1, limit |-> 50]}

\* what the writes of add_field_data can do
FieldStores ==
  [prediction : WriteOutcomes, irrigation : {"stored", "raised"},
   nitrogen : {"stored", "raised"}]

\* the alert inserts succeed
FieldStoresAlertsStored ==
  {store \in FieldStores : store.irrigation = "stored" /\ store.nitrogen = "stored"}

StoreInit ==
  /\ ml_models_cache = {}
  /\ phase = "serving"
  /\ request = NoRequest
  /\ model_call = NoCall
  /\ local = NoLocal
  /\ response = NoResponse
  /\ DetIdle
  /\ ConcIdle
  /\ StartIdle
  /\ users = Registered
  /\ tokens = {}
  /\ farmers = Profiles
  /\ predictions = <<>>
  /\ alerts_table = <<>>

\* the handler has returned r to the request req
Handled(req, r) ==
  /\ request' = req
  /\ Returned(r, NoCall)
  /\ predictions' = r.predictions
  /\ alerts_table' = r.alerts
  /\ UNCHANGED <<ml_models_cache, phase, farmers, det_vars, conc_vars, auth_vars,
                 start_vars>>

\* add_field_data, for the outcomes of its writes
AddFieldData(stores) ==
  /\ phase = "serving"
  /\ request = NoRequest
  /\ Len(predictions) < MaxPredictions
  /\ \E req \in FieldRequests, store \in stores :
       Handled(req, add_field_data(farmers, predictions, alerts_table,
                                   users[req.caller], req.field_data, store))

MarkAlertAsRead ==
  /\ phase = "serving"
  /\ request = NoRequest
  /\ \E req \in ReadRequests(Len(alerts_table)),
        store \in [update : {"stored", "raised"}] :
       Handled(req, mark_alert_as_read(farmers, predictions, alerts_table,
                                       users[req.caller], req.alert_id, store))

ValidatePrediction ==
  /\ phase = "serving"
  /\ request = NoRequest
  /\ \E req \in ValidationRequests(Len(predictions)),
        store \in [update : {"stored", "raised"}] :
       Handled(req, validate_prediction(predictions, alerts_table,
                                        users[req.caller], req.validation, store))

GetPendingPredictions ==
  /\ phase = "serving"
  /\ request = NoRequest
  /\ \E req \in PendingRequests :
       Handled(req, get_pending_predictions(farmers, predictions, alerts_table,
                                            users[req.caller], req.limit))

\* the routes that write the alerts table
FieldNext ==
  \/ AddFieldData(FieldStores)
  \/ MarkAlertAsRead
  \/ Deliver

FieldSpec == StoreInit /\ [][FieldNext]_vars

\* the routes that write the predictions table, and the pending list
ValidationNext ==
  \/ AddFieldData(FieldStoresAlertsStored)
  \/ ValidatePrediction
  \/ GetPendingPredictions
  \/ Deliver

ValidationSpec == StoreInit /\ [][ValidationNext]_vars

-----------------------------------------------------------------------------
(* signup.  The users and farmers tables are the sequences of their rows.    *)

\* schemas.py UserSignup, for two addresses
UserSignups ==
  [name : {"Ada"}, email : {"farmer@farm.example", "agro@farm.example"}, password : {"secret1"},
   role : UserRoles]

\* lines 92-98
user_insert_data(id, user_data) ==
  [id |-> id, name |-> user_data.name, email |-> user_data.email,
   role |-> user_data.role, password_hash |-> hash_password(user_data.password),
   is_active |-> TRUE]

\* an HTTPException, and what str() makes of it
HTTPException(status_code, detail, str) ==
  [http |-> TRUE, status |-> status_code, detail |-> detail, str |-> str]

\* an exception of the datastore client
StoreError(str) == [http |-> FALSE, str |-> str]

EmailRegisteredError ==
  HTTPException(400, "Email already registered", "400: Email already registered")

CreateUserError ==
  HTTPException(500, "Failed to create user", "500: Failed to create user")

\* an exception raised in the body of a handler
Raised(e) == [raised |-> TRUE, exception |-> e]

\* the body has returned
Completed(answer) == [raised |-> FALSE, response |-> answer]

\* lines 109-126, after the users row was inserted
signup_farmer_step(user_rows, farmer_rows, user_data, store) ==
  IF user_data.role = "farmer" /\ store.farmer = "raised"
    THEN [outcome |-> Raised(StoreError("farmers insert failed")),
          users |-> user_rows, farmers |-> farmer_rows]
  ELSE [outcome |->
          Completed([status |-> 200, message |-> "User registered successfully",
                     data |-> [user_id |-> Len(user_rows),
                               email |-> user_data.email]]),
        users |-> user_rows,
        farmers |-> IF user_data.role = "farmer"
                      THEN Append(farmer_rows,
                                  farmer_data(Len(farmer_rows) + 1, Len(user_rows)))
                    ELSE farmer_rows]

\* lines 78-126: the body of the try statement
signup_body(user_rows, farmer_rows, user_data, store) ==
  IF \E id \in DOMAIN user_rows : user_rows[id].email = user_data.email
    THEN [outcome |-> Raised(EmailRegisteredError),
          users |-> user_rows, farmers |-> farmer_rows]
  ELSE IF store.user = "raised"
    THEN [outcome |-> Raised(StoreError("users insert failed")),
          users |-> user_rows, farmers |-> farmer_rows]
  ELSE IF store.user = "no_row"
    THEN [outcome |-> Raised(CreateUserError),
          users |-> user_rows, farmers |-> farmer_rows]
  ELSE signup_farmer_step(
         Append(user_rows, user_insert_data(Len(user_rows) + 1, user_data)),
         farmer_rows, user_data, store)

\* variant: an HTTPException of the body is raised again as it is
signup_except_reraising(body) ==
  IF body.outcome.raised
    THEN IF body.outcome.exception.http
           THEN HttpError(body.outcome.exception.status, body.outcome.exception.detail)
         ELSE HttpError(500, <<"Registration failed:", body.outcome.exception.str>>)
  ELSE body.outcome.response

\* lines 127-131: except Exception as e, which an HTTPException is too
signup_except(body) ==
  IF body.outcome.raised
    THEN HttpError(500, <<"Registration failed:", body.outcome.exception.str>>)
  ELSE body.outcome.response

\* signup: [local, response, users, farmers]
signup(user_rows, farmer_rows, user_data, store) ==
  [local |-> [strategy |-> "signup", store |-> store],
   response |-> signup_except(signup_body(user_rows, farmer_rows, user_data, store)),
   users |-> signup_body(user_rows, farmer_rows, user_data, store).users,
   farmers |-> signup_body(user_rows, farmer_rows, user_data, store).farmers]

SignupInit ==
  /\ ml_models_cache = {}
  /\ phase = "serving"
  /\ request = NoRequest
  /\ model_call = NoCall
  /\ local = NoLocal
  /\ response = NoResponse
  /\ DetIdle
  /\ ConcIdle
  /\ AuthIdle
  /\ StartIdle
  /\ StoreIdle

Signup ==
  /\ phase = "serving"
  /\ request = NoRequest
  /\ \E user_data \in UserSignups,
        store \in [user : WriteOutcomes, farmer : {"stored", "raised"}] :
       /\ request' = [op |-> "signup", user_data |-> user_data]
       /\ Returned(signup(users, farmers, user_data, store), NoCall)
       /\ users' = signup(users, farmers, user_data, store).users
       /\ farmers' = signup(users, farmers, user_data, store).farmers
  /\ UNCHANGED <<ml_models_cache, phase, tokens, predictions, alerts_table,
                 det_vars, conc_vars, start_vars>>

SignupNext ==
  \/ Signup
  \/ Deliver

SignupSpec == SignupInit /\ [][SignupNext]_vars

----------------------------------------------------------------------------
(* Alert synthesis on its own: the rules of generate_alerts evaluated on any *)
(* conditions record, not only on mock_conditions.                           *)

SynthInit ==
  /\ ml_models_cache = {}
  /\ phase = "serving"
  /\ request \in {[op |-> "synthesize", farmer_id |-> 1, conditions |-> c] :
                    c \in ConditionRecords}
  /\ model_call = NoCall
  /\ local = NoLocal
  /\ response = NoResponse
  /\ DetIdle
  /\ ConcIdle
  /\ AuthIdle
  /\ StartIdle
  /\ StoreIdle

SynthesizeAlerts ==
  /\ request.op = "synthesize"
  /\ response = NoResponse
  /\ Returned(synthesize_alerts(request.farmer_id, request.conditions), NoCall)
  /\ UNCHANGED <<ml_models_cache, phase, request>>
  /\ UNCHANGED other_vars

SynthNext ==
  \/ SynthesizeAlerts
  \/ Deliver

AlertSpec == SynthInit /\ [][SynthNext]_vars

\* ---------------------------------------------------------------------------
\* Decimal reference values.  A decimal is a sign, a natural (bignat) and a
\* number of decimal places; a double [s, m, e] is compared with it exactly.
\* ---------------------------------------------------------------------------

Abs(i) == IF i < 0 THEN -i ELSE i
Sign(i) == IF i < 0 THEN -1 ELSE 1
BigDist(a, b) == IF BigCmp(a, b) >= 0 THEN BigSub(a, b) ELSE BigSub(b, a)

\* m * 2^e * 10^d and n, both scaled by 2^max(-e, 0)
DecLhs(x, d) == BigShl(BigMul(x.m, BigPow10(d)), IF x.e > 0 THEN x.e ELSE 0)
DecRhs(x, n) == BigShl(n, IF x.e < 0 THEN -x.e ELSE 0)

\* the double x is exactly s * n / 10^d
Exactly(x, s, n, d) ==
  IF n = <<>> THEN x.m = <<>>
  ELSE x.s = s /\ BigCmp(DecLhs(x, d), DecRhs(x, n)) = 0

\* the double x is within relative error 2^-k of s * n / 10^d
CloseTo(x, s, n, d, k) ==
  IF n = <<>> THEN x.m = <<>>
  ELSE /\ x.s = s
       /\ BigCmp(BigShl(BigDist(DecLhs(x, d), DecRhs(x, n)), k), DecRhs(x, n)) <= 0

\* the double x >= 0 is within absolute error 2^-k of n / 10^d
Within(x, n, d, k) ==
  /\ (x.m = <<>> \/ x.s = 1)
  /\ BigCmp(BigShl(BigDist(DecLhs(x, d), DecRhs(x, n)), k),
            DecRhs(x, BigPow10(d))) <= 0

\* a yield request answered by the rule-based predictor
RuleYieldAnswered ==
  /\ request.op = "predict_yield"
  /\ response.status = 200
  /\ local.strategy \in {"rule", "fallback"}

\* the factors of the yield formula, in hundredths
SoilPct(b) ==
  100 + (IF 60 <= b.soil_ph /\ b.soil_ph <= 75 THEN 10
         ELSE IF b.soil_ph < 55 \/ b.soil_ph > 80 THEN -20 ELSE 0)
      + (IF 600 <= b.soil_moisture /\ b.soil_moisture <= 800 THEN 15
         ELSE IF b.soil_moisture < 400 THEN -30 ELSE 0)
TempPct(b) ==
  IF 200 <= b.temperature /\ b.temperature <= 300 THEN 110
  ELSE IF b.temperature > 350 \/ b.temperature < 100 THEN 80 ELSE 100
RainPct(b) ==
  IF 5000 <= b.rainfall /\ b.rainfall <= 10000 THEN 110
  ELSE IF b.rainfall < 3000 THEN 80 ELSE 100
NutrientPct(b) ==
  100 + (IF b.soil_nitrogen > 500 THEN 5 ELSE 0)
      + (IF b.soil_phosphorus > 200 THEN 5 ELSE 0)
      + (IF b.soil_potassium > 1500 THEN 5 ELSE 0)

\* 50 x soil x temp x rain x nutrient x |acres|, in units of 10^-9
DecimalYield(b) ==
  BigMulSmall(BigMulSmall(BigMulSmall(FromInt(50 * SoilPct(b) * TempPct(b)),
                                      RainPct(b)),
                          NutrientPct(b)),
              Abs(b.acres))

\* C1 (as stated): rule_based_yield_prediction returns exactly the decimal
\* product 50 x soil_factor x temp_factor x rainfall_factor x nutrient_factor
\* x acres with confidence 0.7, and the example field of 2 acres yields
\* 174.3125.
C1_Original ==
  RuleYieldAnswered =>
    /\ Exactly(local.prediction, Sign(request.body.acres),
               DecimalYield(request.body), 9)
    /\ local.confidence = F0_7
    /\ (request.body = ExampleField =>
          Exactly(local.prediction, 1, FromInt(1743125), 4))

\* C1 (amended): rule_based_yield_prediction returns the double product of
\* the six factors, which is within relative error 2^-48 of the decimal
\* product, with confidence 0.7; the example field of 2 acres yields
\* 173.9375 to that accuracy, reported as 173.94.
C1_Amended ==
  RuleYieldAnswered =>
    /\ CloseTo(local.prediction, Sign(request.body.acres),
               DecimalYield(request.body), 9, 48)
    /\ local.confidence = F0_7
    /\ (request.body = ExampleField =>
          /\ CloseTo(local.prediction, 1, FromInt(1739375), 4, 48)
          /\ response.predicted_yield = FromDec(17394, 2))

\* the example field answered by the rule-based predictor, inexactly
C1_Witness ==
  /\ RuleYieldAnswered
  /\ request.body = ExampleField
  /\ ~Exactly(local.prediction, 1, FromInt(1739375), 4)
  /\ response.confidence = F0_7


\* pH, moisture, temperature and rainfall all in their optimal ranges
OptimalRanges(b) ==
  /\ 60 <= b.soil_ph /\ b.soil_ph <= 75
  /\ 600 <= b.soil_moisture /\ b.soil_moisture <= 800
  /\ 200 <= b.temperature /\ b.temperature <= 300
  /\ 5000 <= b.rainfall /\ b.rainfall <= 10000

\* 50 x 1.25 x 1.1 x 1.1 x 1.0 x |acres| = 75.625 x |acres|, in units of 10^-4
OptimalYield(b) == FromInt(75625 * Abs(b.acres))

\* C2 (as stated): with the four optimal ranges and nitrogen >= 50,
\* phosphorus >= 20, potassium >= 150 the rule-based yield equals
\* 50 x 1.25 x 1.1 x 1.1 x 1.0 x acres (to within floating rounding).
C2_Original ==
  ( /\ RuleYieldAnswered
    /\ OptimalRanges(request.body)
    /\ request.body.soil_nitrogen >= 500
    /\ request.body.soil_phosphorus >= 200
    /\ request.body.soil_potassium >= 1500 )
  => CloseTo(local.prediction, Sign(request.body.acres),
             OptimalYield(request.body), 4, 48)

\* C2 (amended): with the four optimal ranges and no nutrient above its
\* threshold (nitrogen <= 50, phosphorus <= 20, potassium <= 150) the
\* rule-based yield equals 50 x 1.25 x 1.1 x 1.1 x 1.0 x acres to within
\* floating rounding.
C2_Amended ==
  ( /\ RuleYieldAnswered
    /\ OptimalRanges(request.body)
    /\ request.body.soil_nitrogen <= 500
    /\ request.body.soil_phosphorus <= 200
    /\ request.body.soil_potassium <= 1500 )
  => CloseTo(local.prediction, Sign(request.body.acres),
             OptimalYield(request.body), 4, 48)

\* a field in the optimal ranges with every nutrient at its threshold
C2_Witness ==
  /\ RuleYieldAnswered
  /\ OptimalRanges(request.body)
  /\ request.body.soil_nitrogen = 500
  /\ request.body.soil_phosphorus = 200
  /\ request.body.soil_potassium = 1500
  /\ request.body.acres = 20
  /\ Exactly(local.prediction, 1, FromInt(15125), 2)

\* the response of each handler when its model is not in the cache
RuleYieldResponse(b) == predict_yield({}, b, NoCall).response
RuleHealthResponse(b) == analyze_crop_health({}, b, NoCall).response

\* a handler has run to its return
HandlerReturned == response # NoResponse /\ local # NoLocal

\* C3: without the model in the cache the rule-based result is returned
\* (confidence 0.7 for yield, 0.75 for health); with the model cached and its
\* predict call returning, that value is used with confidence 0.85 (yield) or
\* 0.80 (health); with the model cached and predict raising, the request
\* still succeeds with exactly the rule-based response.
C3_StrategySelection ==
  HandlerReturned =>
    /\ response.status = 200
    /\ request.op = "predict_yield" =>
         IF "yield_model" \notin ml_models_cache
           THEN /\ model_call = NoCall
                /\ local.prediction = rule_based_yield_prediction(request.body)[1]
                /\ response = RuleYieldResponse(request.body)
                /\ response.confidence = FromDec(7, 1)
         ELSE IF model_call.raised
           THEN /\ response = RuleYieldResponse(request.body)
                /\ response.confidence = FromDec(7, 1)
         ELSE /\ local.prediction = model_call.value
              /\ response.recommendations =
                   generate_yield_recommendations(request.body, model_call.value)
              /\ response.confidence = FromDec(85, 2)
    /\ request.op = "crop_health" =>
         IF "crop_health_model" \notin ml_models_cache
           THEN /\ model_call = NoCall
                /\ local.health_score = rule_based_health_analysis(request.body)[1]
                /\ response = RuleHealthResponse(request.body)
                /\ response.confidence = FromDec(75, 2)
         ELSE IF model_call.raised
           THEN /\ response = RuleHealthResponse(request.body)
                /\ response.confidence = FromDec(75, 2)
         ELSE /\ local.health_score = model_call.value
              /\ response.health_status = HealthStatus(model_call.value)
              /\ response.confidence = FromDec(8, 1)

\* the yield model is cached, its predict call raised, and the client got the
\* rule-based answer
C3_Witness ==
  /\ request.op = "predict_yield"
  /\ "yield_model" \in ml_models_cache
  /\ model_call = PredictFails
  /\ response.status = 200
  /\ local.strategy = "fallback"
  /\ response.confidence = FromDec(7, 1)


\* a health request answered by the rule-based analysis
RuleHealthAnswered ==
  /\ request.op = "crop_health"
  /\ response.status = 200
  /\ local.strategy \in {"rule", "fallback"}

\* s = 0.5 + NDVI term + temperature term + humidity term + soil-moisture
\* term, in hundredths
HealthPct(b) ==
  50 + (IF b.ndvi_index > 6 THEN 30 ELSE IF b.ndvi_index > 4 THEN 10
        ELSE IF b.ndvi_index < 2 THEN -30 ELSE 0)
     + (IF 200 <= b.temperature /\ b.temperature <= 300 THEN 10
        ELSE IF b.temperature > 350 \/ b.temperature < 50 THEN -20 ELSE 0)
     + (IF 500 <= b.humidity /\ b.humidity <= 700 THEN 5
        ELSE IF b.humidity < 300 \/ b.humidity > 900 THEN -10 ELSE 0)
     + (IF 500 <= b.soil_moisture /\ b.soil_moisture <= 800 THEN 10
        ELSE IF b.soil_moisture < 300 THEN -20 ELSE 0)

ClampPct(p) == IF p < 0 THEN 0 ELSE IF p > 100 THEN 100 ELSE p

\* C4 (as stated): rule_based_health_analysis returns exactly the decimal
\* clamp(s, 0, 1), s the sum of 0.5 and the four terms, with confidence 0.75.
C4_Original ==
  RuleHealthAnswered =>
    /\ Exactly(local.health_score, 1, FromInt(ClampPct(HealthPct(request.body))), 2)
    /\ local.confidence = F0_75

\* C4 (amended): rule_based_health_analysis returns the double sum of 0.5 and
\* the four terms, clamped once at the end to [0,1]; it is within 2^-50 of
\* the decimal clamp(s, 0, 1), and the confidence is 0.75.
C4_Amended ==
  RuleHealthAnswered =>
    /\ Within(local.health_score, FromInt(ClampPct(HealthPct(request.body))), 2, 50)
    /\ FGe(local.health_score, F0) /\ FLe(local.health_score, F1)
    /\ local.confidence = F0_75

\* 0.5 + 0.1 + 0.1 + 0.1: the decimal sum is 0.8, the double sum is below it
C4_Witness ==
  /\ RuleHealthAnswered
  /\ HealthPct(request.body) = 80
  /\ FLt(local.health_score, F0_8)
  /\ response.health_status = "good"

\* C5 (as stated): whatever the input, the health score that
\* analyze_crop_health maps to a status lies in [0,1].
C5_ScoreInUnitRange ==
  (request.op = "crop_health" /\ HandlerReturned) =>
    FGe(local.health_score, F0) /\ FLe(local.health_score, F1)

\* the five bands of the status mapping, lowest first
Bands == <<"critical", "poor", "moderate", "good", "excellent">>
Rank(st) == CHOOSE i \in 1..5 : Bands[i] = st

InBand(x, st) ==
  CASE st = "excellent" -> FGe(x, F0_8)
    [] st = "good"      -> FGe(x, F0_65) /\ FLt(x, F0_8)
    [] st = "moderate"  -> FGe(x, F0_5) /\ FLt(x, F0_65)
    [] st = "poor"      -> FGe(x, F0_3) /\ FLt(x, F0_5)
    [] st = "critical"  -> FLt(x, F0_3)

\* scores at and next to the boundaries
ReferenceScores ==
  {F0, F0_3, F0_5, F0_65, F0_8, F1,
   FromDec(29999, 5), FromDec(49999, 5), FromDec(64999, 5), FromDec(79999, 5),
   FAdd(FAdd(FAdd(F0_5, F0_1), F0_1), F0_1), FromDec(-25, 2), FromDec(12, 1)}

\* C6: every score gets exactly one status, the one whose band holds it
\* (>= 0.8 excellent, [0.65, 0.8) good, [0.5, 0.65) moderate, [0.3, 0.5) poor,
\* < 0.3 critical); a higher score never gets a worse status, and a score on a
\* boundary belongs to the band above it.
C6_StatusMapping ==
  (request.op = "crop_health" /\ HandlerReturned) =>
    /\ Cardinality({i \in 1..5 : InBand(local.health_score, Bands[i])}) = 1
    /\ InBand(local.health_score, response.health_status)
    /\ \A v \in ReferenceScores :
         /\ Cardinality({i \in 1..5 : InBand(v, Bands[i])}) = 1
         /\ InBand(v, HealthStatus(v))
         /\ FGe(local.health_score, v) =>
              Rank(response.health_status) >= Rank(HealthStatus(v))
         /\ FLe(local.health_score, v) =>
              Rank(response.health_status) <= Rank(HealthStatus(v))
    /\ HealthStatus(F0_8) = "excellent"
    /\ HealthStatus(FromDec(79999, 5)) = "good"

\* the model returns the boundary score 0.8 and the status is excellent
C6_Witness ==
  /\ request.op = "crop_health"
  /\ HandlerReturned
  /\ local.strategy = "model"
  /\ local.health_score = F0_8
  /\ response.health_status = "excellent"


\* a health request answered by analyze_crop_health, by any strategy
HealthAnswered == request.op = "crop_health" /\ HandlerReturned

\* the seven indicator strings in the order vigor, thermal, humidity, moisture
IndicatorOrder ==
  <<"Low vegetation vigor detected",
    "Heat stress risk", "Cold stress risk",
    "Low humidity stress", "High humidity disease risk",
    "Water stress", "Waterlogging risk">>

IndicatorPos(x) == CHOOSE i \in 1..7 : IndicatorOrder[i] = x
IndicatorGroup(x) == (IndicatorPos(x) + 2) \div 2

\* seq lists some of the seven indicators, in their fixed order
InIndicatorOrder(seq) ==
  /\ \A i \in 1..Len(seq) : \E k \in 1..7 : IndicatorOrder[k] = seq[i]
  /\ \A i, j \in 1..Len(seq) :
       i < j => IndicatorPos(seq[i]) < IndicatorPos(seq[j])

\* C7: generate_stress_indicators returns the indicators whose checks hold, in
\* the order vigor, thermal, humidity, moisture: vigor iff ndvi < 0.4; heat
\* iff temperature > 35, otherwise cold iff temperature < 10; low humidity iff
\* humidity < 30, otherwise high humidity iff humidity > 85; water stress iff
\* soil_moisture < 30, otherwise waterlogging iff soil_moisture > 90; so at
\* most four entries and at most one per group.
C7_StressIndicators ==
  HealthAnswered =>
    /\ InIndicatorOrder(response.stress_indicators)
    /\ InList("Low vegetation vigor detected", response.stress_indicators)
         <=> request.body.ndvi_index < 4
    /\ InList("Heat stress risk", response.stress_indicators)
         <=> request.body.temperature > 350
    /\ InList("Cold stress risk", response.stress_indicators)
         <=> (request.body.temperature <= 350 /\ request.body.temperature < 100)
    /\ InList("Low humidity stress", response.stress_indicators)
         <=> request.body.humidity < 300
    /\ InList("High humidity disease risk", response.stress_indicators)
         <=> (request.body.humidity >= 300 /\ request.body.humidity > 850)
    /\ InList("Water stress", response.stress_indicators)
         <=> request.body.soil_moisture < 300
    /\ InList("Waterlogging risk", response.stress_indicators)
         <=> (request.body.soil_moisture >= 300 /\ request.body.soil_moisture > 900)
    /\ Len(response.stress_indicators) <= 4
    /\ \A i, j \in 1..Len(response.stress_indicators) :
         i # j => IndicatorGroup(response.stress_indicators[i])
                    # IndicatorGroup(response.stress_indicators[j])

\* one indicator of every group: vigor, cold, high humidity, waterlogging
C7_Witness ==
  /\ HealthAnswered
  /\ response.stress_indicators =
       <<"Low vegetation vigor detected", "Cold stress risk",
         "High humidity disease risk", "Waterlogging risk">>

\* a yield request answered by predict_yield, by any strategy
YieldAnswered == request.op = "predict_yield" /\ HandlerReturned

Pick(cond, advice) == IF cond THEN <<advice>> ELSE <<>>

\* the advice of every rule that holds, in the order of the eight rules
SelectedAdvice(b, prediction) ==
  Pick(b.soil_ph < 60,
       "Consider liming to increase soil pH for better nutrient uptake")
  \o Pick(b.soil_ph > 80, "Consider adding organic matter to lower soil pH")
  \o Pick(b.soil_moisture < 400,
          "Increase irrigation frequency to maintain optimal soil moisture")
  \o Pick(b.soil_nitrogen < 500, "Apply nitrogen fertilizer to boost crop growth")
  \o Pick(b.soil_phosphorus < 200,
          "Consider phosphorus supplementation for root development")
  \o Pick(b.temperature > 300,
          "Monitor for heat stress and consider shade protection")
  \o Pick(FLt(prediction, F40),
          "Current conditions may limit yield. Consider soil amendments and improved irrigation")
  \o Pick(FGt(prediction, F80),
          "Excellent growing conditions. Maintain current management practices")

\* C8: generate_yield_recommendations returns exactly the advice of the rules
\* that hold (pH < 6.0, pH > 8.0, moisture < 40, nitrogen < 50, phosphorus <
\* 20, temperature > 30, prediction < 40, prediction > 80), in that order; no
\* rule is suppressed by another having fired.
C8_YieldRecommendations ==
  YieldAnswered =>
    response.recommendations = SelectedAdvice(request.body, local.prediction)

\* five rules fire together: liming, irrigation, nitrogen, phosphorus and
\* limited yield
C8_Witness ==
  /\ YieldAnswered
  /\ request.body.soil_ph < 60
  /\ request.body.soil_moisture < 400
  /\ request.body.soil_nitrogen < 500
  /\ request.body.soil_phosphorus < 200
  /\ FLt(local.prediction, F40)
  /\ Len(response.recommendations) >= 5


Last2(seq) == SubSeq(seq, Len(seq) - 1, Len(seq))

ExpertPair ==
  <<"Immediate intervention required - consult agricultural expert",
    "Conduct thorough field inspection">>
MaintainPair ==
  <<"Maintain current management practices", "Continue regular monitoring">>

\* C9: status poor or critical puts the expert and inspection advice, in that
\* order, first in the recommendations; status excellent puts the maintain
\* and monitor advice, in that order, last; good and moderate give none of
\* the four.
C9_StatusAdvice ==
  HealthAnswered =>
    /\ response.health_status \in {"poor", "critical"} =>
         /\ Len(response.recommendations) >= 2
         /\ SubSeq(response.recommendations, 1, 2) = ExpertPair
    /\ response.health_status = "excellent" =>
         /\ Len(response.recommendations) >= 2
         /\ Last2(response.recommendations) = MaintainPair
    /\ response.health_status \in {"good", "moderate"} =>
         \A i \in 1..2 :
           /\ ~InList(ExpertPair[i], response.recommendations)
           /\ ~InList(MaintainPair[i], response.recommendations)

\* a poor or critical field with stress indicators: the expert pair comes
\* first and the indicators' advice after it
C9_Witness ==
  /\ HealthAnswered
  /\ response.health_status \in {"poor", "critical"}
  /\ InList("Heat stress risk", response.stress_indicators)
  /\ Len(response.recommendations) > 2
  /\ SubSeq(response.recommendations, 1, 2) = ExpertPair

\* the list without the entries equal to x
Without(seq, x) == SelectSeq(seq, LAMBDA y : y # x)

\* the recommendations that are there because indicator x is in the list
TriggeredBy(b, health_status, stress_indicators, x) ==
  {r \in {generate_health_recommendations(b, health_status, stress_indicators)[i] :
            i \in 1..Len(generate_health_recommendations(b, health_status,
                                                         stress_indicators))} :
     ~InList(r, generate_health_recommendations(b, health_status,
                                                Without(stress_indicators, x)))}

\* C10 (as stated): every indicator in stress_indicators, whichever of the
\* seven it is, has at least one recommendation of its own in the
\* recommendations list.
C10_CompanionForEach ==
  HealthAnswered =>
    \A i \in 1..Len(response.stress_indicators) :
      \E r \in TriggeredBy(request.body, response.health_status,
                           response.stress_indicators,
                           response.stress_indicators[i]) :
        InList(r, response.recommendations)


\* the alert rules have been evaluated on a conditions record
AlertsAnswered ==
  /\ request.op \in {"synthesize", "alerts"}
  /\ HandlerReturned

Brief(alert) ==
  [type |-> alert.type, severity |-> alert.severity, priority |-> alert.priority]

\* the alerts the five rules select for a conditions record
SelectedAlerts(c) ==
  (IF c.temperature > 350
     THEN {[type |-> "weather", severity |-> "high", priority |-> 1]} ELSE {})
  \cup (IF c.soil_moisture < 200
          THEN {[type |-> "irrigation", severity |-> "critical", priority |-> 1]}
        ELSE IF c.soil_moisture < 300
          THEN {[type |-> "irrigation", severity |-> "high", priority |-> 2]}
        ELSE {})
  \cup (IF c.humidity > 800 /\ c.temperature > 250
          THEN {[type |-> "pest", severity |-> "medium", priority |-> 3]} ELSE {})
  \cup (IF c.wind_speed > 150
          THEN {[type |-> "weather", severity |-> "medium", priority |-> 3]} ELSE {})
  \cup {[type |-> "disease", severity |-> "low", priority |-> 4]}

\* C11: for every conditions record the returned alerts are exactly those the
\* rules select: temperature > 35 weather/high priority 1; soil_moisture < 30
\* irrigation, critical priority 1 below 20 and high priority 2 otherwise;
\* humidity > 80 and temperature > 25 pest/medium priority 3; wind_speed > 15
\* weather/medium priority 3; and always the disease/low Seasonal Nutrient
\* Check of priority 4; each rule gives at most one alert.
C11_AlertRules ==
  AlertsAnswered =>
    /\ {Brief(response.alerts[i]) : i \in 1..Len(response.alerts)}
         = SelectedAlerts(response.conditions)
    /\ Len(response.alerts) = Cardinality(SelectedAlerts(response.conditions))
    /\ response.total_alerts = Len(response.alerts)
    /\ \A i \in 1..Len(response.alerts) :
         response.alerts[i].priority = 4
           <=> response.alerts[i].title = "Seasonal Nutrient Check"

\* humid at exactly 25 degrees with soil moisture between 20 and 30: the
\* irrigation alert is high with priority 2 and there is no pest alert
C11_Witness ==
  /\ request.op = "synthesize"
  /\ HandlerReturned
  /\ request.conditions.soil_moisture = 250
  /\ request.conditions.humidity = 900
  /\ request.conditions.temperature = 250
  /\ [type |-> "irrigation", severity |-> "high", priority |-> 2]
       \in {Brief(response.alerts[i]) : i \in 1..Len(response.alerts)}
  /\ response.total_alerts = 3

\* where an alert of the response was in the order of appending
AppendedPos(alert) == CHOOSE k \in 1..Len(local.appended) : local.appended[k] = alert

\* C12: the alert list is never empty (the Seasonal Nutrient Check is always
\* in it), is sorted ascending by priority, and alerts of equal priority
\* keep the order in which they were appended (heat before critical
\* irrigation at priority 1, pest before wind at priority 3).
C12_SortedStable ==
  AlertsAnswered =>
    /\ Len(response.alerts) >= 1
    /\ \E i \in 1..Len(response.alerts) :
         response.alerts[i].title = "Seasonal Nutrient Check"
    /\ Len(response.alerts) = Len(local.appended)
    /\ \A i \in 1..Len(response.alerts) :
         \E k \in 1..Len(local.appended) : local.appended[k] = response.alerts[i]
    /\ \A i, j \in 1..Len(response.alerts) :
         i < j =>
           /\ response.alerts[i].priority <= response.alerts[j].priority
           /\ response.alerts[i].priority = response.alerts[j].priority
                => AppendedPos(response.alerts[i]) < AppendedPos(response.alerts[j])
           /\ ~(response.alerts[i].title = "Low Soil Moisture Alert"
                /\ response.alerts[j].title = "Heat Stress Warning")
           /\ ~(response.alerts[i].title = "High Wind Advisory"
                /\ response.alerts[j].title = "Fungal Disease Risk")

\* two ties at once: heat and critical irrigation at priority 1, pest and wind
\* at priority 3
C12_Witness ==
  /\ request.op = "synthesize"
  /\ HandlerReturned
  /\ Len(response.alerts) = 5
  /\ [i \in 1..5 |-> response.alerts[i].title]
       = <<"Heat Stress Warning", "Low Soil Moisture Alert", "Fungal Disease Risk",
           "High Wind Advisory", "Seasonal Nutrient Check">>
  /\ [i \in 1..5 |-> response.alerts[i].priority] = <<1, 1, 3, 3, 4>>


\* C13: a yield request is rejected with a validation error, and no result is
\* produced, when soil_ph is outside [0,14] or soil_moisture is outside
\* [0,100]; the bounds 0 and 14, 0 and 100 are accepted; accepted values
\* reach the scoring functions unchanged.
C13_RangeValidation ==
  (request.op = "predict_yield" /\ response # NoResponse) =>
    IF \/ request.body.soil_ph < 0 \/ request.body.soil_ph > 140
       \/ request.body.soil_moisture < 0 \/ request.body.soil_moisture > 1000
      THEN /\ response = ValidationError
           /\ local = NoLocal
           /\ model_call = NoCall
      ELSE /\ response.status = 200
           /\ local.input_data = request.body
           /\ local.strategy \in {"rule", "fallback"} =>
                CloseTo(local.prediction, Sign(request.body.acres),
                        DecimalYield(request.body), 9, 48)

\* soil_ph = 15 is answered with the validation error
C13_Witness ==
  /\ request.op = "predict_yield"
  /\ request.body.soil_ph = 150
  /\ response = ValidationError
  /\ local = NoLocal

\* the declared domain of a field observation and of a crop-health observation
InDeclaredDomain(op, b) ==
  /\ -500 <= b.temperature /\ b.temperature <= 600
  /\ 0 <= b.humidity /\ b.humidity <= 1000
  /\ 0 <= b.soil_moisture /\ b.soil_moisture <= 1000
  /\ op = "predict_yield" =>
       /\ 0 <= b.soil_ph /\ b.soil_ph <= 140
       /\ b.soil_nitrogen >= 0 /\ b.soil_phosphorus >= 0 /\ b.soil_potassium >= 0
       /\ b.rainfall >= 0
       /\ b.acres > 0
  /\ op = "crop_health" => (-10 <= b.ndvi_index /\ b.ndvi_index <= 10)

\* C14 (as stated): every field is checked against its declared bound before
\* any scoring, so no out-of-range record reaches predict_yield's or
\* analyze_crop_health's scoring.
C14_AllFieldsChecked ==
  (request.op \in {"predict_yield", "crop_health"} /\ HandlerReturned) =>
    InDeclaredDomain(request.op, request.body)


LimitedYieldAdvice ==
  "Current conditions may limit yield. Consider soil amendments and improved irrigation"
MaintainAdvice ==
  "Excellent growing conditions. Maintain current management practices"

Mentions(recommendations, advice) ==
  \E i \in 1..Len(recommendations) : recommendations[i] = advice

\* |r| * 10^nd rounded to a natural
Scaled(r, nd) ==
  HalfEven(BigShr(DecLhs(r, nd), IF r.e < 0 THEN -r.e ELSE 0),
           BigLow(DecLhs(r, nd), IF r.e < 0 THEN -r.e ELSE 0),
           IF r.e < 0 THEN -r.e ELSE 0)

\* r is the double of a decimal with nd places, and that decimal is within
\* half a unit of its last place (and 10^-6 of such a unit) of x
RoundedTo(r, x, nd) ==
  LET k == Scaled(r, nd) IN
  /\ r = FSigned(r.s, IF k = <<>> THEN FZero ELSE NatOverPow10(k, nd))
  /\ (k # <<>> /\ x.m # <<>>) => r.s = x.s
  /\ BigCmp(BigDist(DecLhs(x, nd + 6), DecRhs(x, BigMul(k, BigPow10(6)))),
            DecRhs(x, FromInt(500001))) <= 0

\* C18: predicted_yield is the prediction rounded to 2 decimals and
\* confidence the confidence rounded to 3, while the limited-yield and
\* maintain-practices advice are decided on the unrounded prediction
\* (< 40 and > 80), so 40.00 can come with the limited-yield advice and
\* 80.00 with the maintain-practices advice.
C18_RoundingAtBoundary ==
  YieldAnswered =>
    /\ RoundedTo(response.predicted_yield, local.prediction, 2)
    /\ RoundedTo(response.confidence, local.confidence, 3)
    /\ Mentions(response.recommendations, LimitedYieldAdvice)
         <=> FLt(local.prediction, F40)
    /\ Mentions(response.recommendations, MaintainAdvice)
         <=> FGt(local.prediction, F80)

\* the model answers 39.996: reported as 40.00 with the limited-yield advice
C18_Witness ==
  /\ YieldAnswered
  /\ local.prediction = FromDec(39996, 3)
  /\ response.predicted_yield = F40
  /\ Mentions(response.recommendations, LimitedYieldAdvice)

\* the model answers 80.004: reported as 80.00 with the maintain advice
C18_WitnessMaintain ==
  /\ YieldAnswered
  /\ local.prediction = FromDec(80004, 3)
  /\ response.predicted_yield = F80
  /\ Mentions(response.recommendations, MaintainAdvice)


\* a handler of the ML routes returns in this step
HandlerStep == request # NoRequest /\ response = NoResponse /\ response' # NoResponse

\* C16: predict_yield, analyze_crop_health, generate_alerts and
\* get_model_info leave the model cache as it is whatever their outcome
\* (model answer, model failure, rejection); the cache changes only in
\* lifespan's startup step, and in its shutdown step, which empties it.
C16_CacheFrame ==
  [][/\ HandlerStep => ml_models_cache' = ml_models_cache
     /\ ml_models_cache' # ml_models_cache =>
          \/ phase = "startup" /\ phase' = "serving"
          \/ phase = "serving" /\ phase' = "stopped" /\ ml_models_cache' = {}]_vars

\* the model's predict call failed inside predict_yield and the model is
\* still cached when the handler has returned
C16_Witness ==
  /\ request.op = "predict_yield"
  /\ response # NoResponse
  /\ model_call = PredictFails
  /\ local.strategy = "fallback"
  /\ "yield_model" \in ml_models_cache


AloneResponse(r) ==
  IF r.op = "alerts" THEN generate_alerts(r.farmer_id).response
  ELSE HandlerOf(r.op, ml_models_cache, r.body,
                 IF ModelOf(r.op) \in ml_models_cache
                   THEN fitted[ModelOf(r.op)][r.body] ELSE NoCall).response

\* C17: whatever the interleaving of the requests in flight, each request
\* is answered what it would be answered alone.
C17_NonInterference ==
  \A slot \in DOMAIN inflight :
    inflight[slot].pc = "returned" =>
      inflight[slot].response = AloneResponse(inflight[slot].request)

\* two yield requests with different inputs overlap: the second has been
\* received and passed its model call while the first was in its handler
C17_Witness ==
  /\ DOMAIN inflight = Slots
  /\ inflight[1].pc = "returned"
  /\ inflight[2].pc = "called"
  /\ inflight[1].request.op = "predict_yield"
  /\ inflight[2].request.op = "predict_yield"
  /\ inflight[1].request.body # inflight[2].request.body


\* the handler of a routed request returns in this step
RouteStep == request.op = "route" /\ response = NoResponse /\ response' # NoResponse

\* the request carries a token that is valid when the handler runs
Authenticated == request.token \in tokens /\ request.token.sub \in DOMAIN users

\* C19: a farmer, agronomist or researcher route answers 200 only to an
\* authenticated user of that role; an authenticated user of another role
\* gets 403 without the handler body being entered (so without any read or
\* write of the datastore by it); the ML routes enter their body for every
\* authenticated user, whatever the role.
C19_RoleGating ==
  [][RouteStep =>
       /\ (request.area \in UserRoles /\ response'.status = 200) =>
            Authenticated /\ users[request.token.sub].role = request.area
       /\ (request.area \in UserRoles /\ Authenticated
             /\ users[request.token.sub].role # request.area) =>
            response'.status = 403 /\ ~local'.body_entered
       /\ (request.area = "ml" /\ Authenticated) =>
            local'.body_entered /\ response'.status \notin {401, 403}
       /\ ~Authenticated => response'.status = 401 /\ ~local'.body_entered]_vars

\* an agronomist called a farmer route: 403, body not entered
C19_Witness ==
  /\ request.op = "route"
  /\ request.area = "farmer"
  /\ local.strategy = "auth"
  /\ local.current_user # NoUser
  /\ local.current_user.role = "agronomist"
  /\ response.status = 403
  /\ ~local.body_entered

\* the row of the account with the posted email, if any
KnownEmail == \E id \in DOMAIN users : users[id].email = request.email
Account == users[CHOOSE id \in DOMAIN users : users[id].email = request.email]
PasswordMatches == Account.password_hash = hash_password(request.password)

LoginStep == request.op = "login" /\ response = NoResponse /\ response' # NoResponse

\* a token is handed out in this step, by /login or by /refresh
TokenStep ==
  /\ request.op \in {"login", "refresh"}
  /\ response = NoResponse
  /\ response'.status = 200

\* the checks of login: a token only for a known email, a matching password
\* and an active account; the same 401 for an unknown email and for a wrong
\* password; 'Account is inactive' only after the password matched
LoginChecks ==
  LoginStep =>
    /\ response'.status = 200 <=>
         (KnownEmail /\ PasswordMatches /\ Account.is_active)
    /\ (~KnownEmail \/ ~PasswordMatches) =>
         response' = Unauthorized("Invalid email or password")
    /\ (KnownEmail /\ PasswordMatches /\ ~Account.is_active) =>
         response' = Unauthorized("Account is inactive")

\* the checks of login hold in every step
C20_LoginChecks == [][LoginChecks]_vars

\* C20 (as stated): login hands out a token only for a known email, a
\* matching password and an active account, checked in that order, and in no
\* sequence of calls is a token handed out for an inactive account.
C20_NoTokenForInactive ==
  [][/\ LoginChecks
     /\ TokenStep => users[response'.access_token.sub].is_active]_vars

\* a deactivated account with the right password is told so
C20_InactiveRefused ==
  /\ request.op = "login"
  /\ response = Unauthorized("Account is inactive")


\* C25: under the rule-based strategy a result without stress indicators has
\* a score of at least 0.5, so its status is moderate, good or excellent and
\* its recommendations are empty or exactly the maintain and monitor pair.
C25_NoIndicatorsNotPoor ==
  (RuleHealthAnswered /\ response.stress_indicators = <<>>) =>
    /\ FGe(local.health_score, F0_5)
    /\ response.health_status \in {"moderate", "good", "excellent"}
    /\ response.recommendations \in {<<>>, MaintainPair}
    /\ response.recommendations = MaintainPair
         <=> response.health_status = "excellent"

\* NDVI 0.4, 10 degrees, humidity 30, soil moisture 30: no indicator, no
\* bonus, the score stays at 0.5
C25_Witness ==
  /\ RuleHealthAnswered
  /\ response.stress_indicators = <<>>
  /\ local.health_score = F0_5
  /\ response.health_status = "moderate"
  /\ response.recommendations = <<>>

FungicideAdvice == "Improve air circulation and consider fungicide application"

\* C26: under the rule-based strategy an excellent result carries none of
\* the indicators low vegetation vigor, heat stress and water stress, and
\* its recommendations are the maintain and monitor pair, preceded by the
\* fungicide advice or by nothing.
C26_ExcellentIndicators ==
  (RuleHealthAnswered /\ response.health_status = "excellent") =>
    /\ \A x \in {"Low vegetation vigor detected", "Heat stress risk", "Water stress"} :
         ~InList(x, response.stress_indicators)
    /\ response.recommendations \in {MaintainPair, <<FungicideAdvice>> \o MaintainPair}
    /\ response.recommendations = <<FungicideAdvice>> \o MaintainPair
         <=> InList("High humidity disease risk", response.stress_indicators)

\* an excellent result with the high-humidity indicator
C26_Witness ==
  /\ RuleHealthAnswered
  /\ response.health_status = "excellent"
  /\ InList("High humidity disease risk", response.stress_indicators)
  /\ response.recommendations = <<FungicideAdvice>> \o MaintainPair


\* the doubles x and (n / 2^k) * a, as naturals over a common power of two
TimesLhs(x, a, k) == BigShl(x.m, IF x.e > a.e - k THEN x.e - (a.e - k) ELSE 0)
TimesRhs(x, n, k, a) ==
  BigShl(BigMulSmall(a.m, n), IF a.e - k > x.e THEN (a.e - k) - x.e ELSE 0)

\* the double x > 0 is at least (n / 2^k) times the double a > 0
AtLeastTimes(x, n, k, a) ==
  x.s = 1 /\ BigCmp(TimesLhs(x, a, k), TimesRhs(x, n, k, a)) >= 0

\* the double x > 0 is at most (n / 2^k) times the double a > 0
AtMostTimes(x, n, k, a) ==
  x.s = 1 /\ BigCmp(TimesLhs(x, a, k), TimesRhs(x, n, k, a)) <= 0

\* the double x > 0 is at most (1 + 2^-t) * (n / 2^k) times the double a > 0
AtMostAboutTimes(x, n, k, a, t) ==
  /\ x.s = 1
  /\ BigCmp(BigShl(TimesLhs(x, a, k), t),
            BigAdd(BigShl(TimesRhs(x, n, k, a), t), TimesRhs(x, n, k, a))) <= 0

\* a rule-based result with acres > 5 has the 'excellent conditions' advice
\* and not the 'limited yield' one
LargeFieldAdvice ==
  request.body.acres > 50 =>
    /\ Mentions(response.recommendations, MaintainAdvice)
    /\ ~Mentions(response.recommendations, LimitedYieldAdvice)

\* C27 (as stated): for acres > 0 the rule-based yield is between 16 x acres
\* and 86.96875 x acres (86.96875 = 2783 / 32, acres the double received), and with acres > 5 the result carries the
\* 'excellent conditions' advice and not the 'limited yield' advice.
C27_Original ==
  (RuleYieldAnswered /\ request.body.acres > 0) =>
    /\ AtLeastTimes(local.prediction, 16, 0, ParseFloat(request.body.acres))
    /\ AtMostTimes(local.prediction, 2783, 5, ParseFloat(request.body.acres))
    /\ LargeFieldAdvice

\* C27 (amended): for acres > 0 the rule-based yield is at least 16 x acres
\* and at most 86.96875 x acres up to the rounding of the double product
\* (relative 2^-48), and with acres > 5 the result carries the 'excellent
\* conditions' advice and not the 'limited yield' advice.
C27_Amended ==
  (RuleYieldAnswered /\ request.body.acres > 0) =>
    /\ AtLeastTimes(local.prediction, 16, 0, ParseFloat(request.body.acres))
    /\ AtMostAboutTimes(local.prediction, 2783, 5, ParseFloat(request.body.acres), 48)
    /\ LargeFieldAdvice

\* the worst field at 5.1 acres: 81.6, with the 'excellent conditions' advice
C27_Witness ==
  /\ RuleYieldAnswered
  /\ request.body = [WorstField EXCEPT !.acres = 51]
  /\ local.strategy = "rule"
  /\ local.prediction = FMul(FromDec(16, 0), ParseFloat(51))
  /\ Mentions(response.recommendations, MaintainAdvice)


\* model scores that give the five statuses, critical to excellent
ScorePerStatus ==
  {Returns(v) : v \in {FromDec(-25, 2), FromDec(3, 1), FromDec(5, 1),
                       FromDec(65, 2), FromDec(8, 1)}}

\* the ways analyze_crop_health can arrive at a score for one input: without
\* the model, with the model failing, with the model returning
HealthVariants(input_data) ==
  {analyze_crop_health({}, input_data, NoCall).response} \cup
  {analyze_crop_health({"crop_health_model"}, input_data, outcome).response :
     outcome \in ScorePerStatus \cup {PredictFails}}

\* C28: the stress indicators of analyze_crop_health depend only on the
\* input: they are the same whether the score came from the model, the
\* rule-based analysis or the fallback, and whatever the health status; only
\* health_status, confidence and the recommendations that follow from the
\* status can differ.
C28_IndicatorsFromInputOnly ==
  HealthAnswered =>
    \A other \in HealthVariants(request.body) :
      /\ other.stress_indicators = response.stress_indicators
      /\ other.crop = response.crop
      /\ other.status = response.status
      /\ other.health_status = response.health_status =>
           other.recommendations = response.recommendations

\* a model score of 0.29999 makes critical an input the rules call good; both
\* answers report the same single indicator
C28_Witness ==
  /\ HealthAnswered
  /\ local.strategy = "model"
  /\ request.body = [ExampleHealth EXCEPT !.humidity = 200]
  /\ response.health_status = "critical"
  /\ response.stress_indicators = <<"Low humidity stress">>
  /\ analyze_crop_health({}, request.body, NoCall).response.health_status = "good"
  /\ analyze_crop_health({}, request.body, NoCall).response.recommendations
       # response.recommendations


\* the file of a model
FileOf(h, model_name) ==
  IF model_name = "yield_model" THEN h.yield_file ELSE h.health_file

\* the models loaded before model_name: the yield model comes first
LoadedEarlier(model_name) ==
  IF model_name = "crop_health_model" THEN {"yield_model"} ELSE {}

\* the models whose file could be unpickled with no failure before them
LoadedBeforeFailure(h) ==
  {n \in ModelNames :
     /\ FileOf(h, n) = "loadable"
     /\ \A earlier \in LoadedEarlier(n) : FileOf(h, earlier) # "corrupt"}

\* the model a request asks for
ModelNeeded ==
  IF request.op = "predict_yield" THEN "yield_model" ELSE "crop_health_model"

\* C29: model loading never prevents startup: whatever the model files, the
\* lifespan reaches its yield with the database initialised and requests are
\* answered; the cache holds exactly the models loaded before the failure (a
\* failure on the yield model leaves it empty even when the crop-health file
\* can be loaded); a request for a model that is not cached is answered by the
\* rule-based strategy; after shutdown the cache is empty.
C29_CacheAfterLoading ==
  /\ phase # "startup" => host.db_initialized
  /\ phase = "serving" => ml_models_cache = LoadedBeforeFailure(host)
  /\ response # NoResponse => response.status = 200
  /\ (request.op \in {"predict_yield", "crop_health"} /\ response # NoResponse) =>
       (ModelNeeded \notin LoadedBeforeFailure(host) => local.strategy = "rule")
  /\ phase = "stopped" => ml_models_cache = {}

C29_StartupSurvivesLoading ==
  /\ []C29_CacheAfterLoading
  /\ \A h \in Hosts :
       (phase = "startup" /\ host = h)
         ~> (phase = "serving" /\ host = [h EXCEPT !.db_initialized = TRUE])

\* the yield file is corrupt and the crop-health file loadable: the cache is
\* empty and a crop-health request is answered by the rules
C29_Witness ==
  /\ phase = "serving"
  /\ host.yield_file = "corrupt"
  /\ host.health_file = "loadable"
  /\ host.db_initialized
  /\ ml_models_cache = {}
  /\ request.op = "crop_health"
  /\ response.status = 200
  /\ local.strategy = "rule"

\* the server has stopped after a start with both models loaded
C29_WitnessStopped ==
  /\ phase = "stopped"
  /\ host.yield_file = "loadable"
  /\ host.health_file = "loadable"
  /\ ml_models_cache = {}


\* the step is the handling of a request to the route op
Handles(op) == request = NoRequest /\ request'.op = op

\* the farmer profiles of a user
ProfilesOf(user_id) == {id \in DOMAIN farmers : farmers[id].user_id = user_id}

\* the rows a step has appended to a table
Appended(before, after) == SubSeq(after, Len(before) + 1, Len(after))

\* the step has only appended rows to the table
OnlyAppends(before, after) ==
  Len(before) <= Len(after) /\ SubSeq(after, 1, Len(before)) = before

\* the alerts a reading calls for, irrigation first: type, title, severity
AlertsCalledFor(field_data) ==
  (IF field_data.soil_moisture < 300
     THEN <<[alert_type |-> "irrigation", title |-> "Low Soil Moisture Detected",
             severity |-> IF field_data.soil_moisture < 200 THEN "high" ELSE "medium"]>>
     ELSE <<>>)
  \o (IF field_data.soil_nitrogen < 500
        THEN <<[alert_type |-> "disease", title |-> "Low Nitrogen Levels",
                severity |-> "medium"]>>
        ELSE <<>>)

AlertBrief(alert) ==
  [alert_type |-> alert.alert_type, title |-> alert.title, severity |-> alert.severity]

\* the stored row is the mock prediction: 75.5 with confidence 0.85
MockRow(row) ==
  /\ Exactly(row.prediction, 1, FromInt(755), 1)
  /\ row.confidence = FromDec(85, 2)

\* a step of add_field_data as C24 describes it
FieldDataStep ==
  /\ OnlyAppends(predictions, predictions')
  /\ OnlyAppends(alerts_table, alerts_table')
  /\ Len(Appended(predictions, predictions')) <= 1
  /\ \A i \in DOMAIN Appended(predictions, predictions') :
       /\ MockRow(Appended(predictions, predictions')[i])
       /\ Appended(predictions, predictions')[i].farmer_id
            \in ProfilesOf(request'.caller)
  /\ Appended(alerts_table, alerts_table') # <<>> =>
       Len(Appended(predictions, predictions')) = 1
  /\ \A i \in DOMAIN Appended(alerts_table, alerts_table') :
       /\ Appended(alerts_table, alerts_table')[i].farmer_id
            \in ProfilesOf(request'.caller)
       /\ ~Appended(alerts_table, alerts_table')[i].is_read
  /\ response'.status = 200 =>
       /\ Len(Appended(predictions, predictions')) = 1
       /\ [i \in DOMAIN Appended(alerts_table, alerts_table') |->
             AlertBrief(Appended(alerts_table, alerts_table')[i])]
            = AlertsCalledFor(request'.field_data)
  /\ (ProfilesOf(request'.caller) = {}
        \/ (local'.store # NoWrite /\ local'.store.prediction = "no_row")) =>
       /\ response'.status # 200
       /\ predictions' = predictions
       /\ alerts_table' = alerts_table

C24_WitnessNoRow ==
  /\ request.op = "add_field_data"
  /\ response = HttpError(500, "Failed to store prediction")
  /\ request.field_data.soil_moisture = 150
  /\ predictions = <<>>
  /\ alerts_table = <<>>


\* the alert with the id of the request, where it exists
Addressed == {id \in DOMAIN alerts_table : alerts_table[id].id = request'.alert_id}

\* a step of mark_alert_as_read as C23 describes it
MarkReadStep ==
  /\ predictions' = predictions
  /\ DOMAIN alerts_table' = DOMAIN alerts_table
  /\ \A id \in DOMAIN alerts_table :
       \/ alerts_table'[id] = alerts_table[id]
       \/ /\ id = request'.alert_id
          /\ alerts_table[id].farmer_id \in ProfilesOf(request'.caller)
          /\ alerts_table'[id] = [alerts_table[id] EXCEPT !.is_read = TRUE]
  /\ response'.status = 200 =>
       \E id \in Addressed :
         /\ alerts_table[id].farmer_id \in ProfilesOf(request'.caller)
         /\ alerts_table'[id].is_read
  /\ \A id \in Addressed :
       (/\ users[request'.caller].role = "farmer"
        /\ ProfilesOf(request'.caller) # {}
        /\ alerts_table[id].farmer_id \notin ProfilesOf(request'.caller)
        /\ local'.store.update = "stored") =>
         /\ response' = HttpError(404, "Alert not found")
         /\ alerts_table' = alerts_table

\* an alert that is read stays read
StaysRead ==
  \A id \in DOMAIN alerts_table :
    alerts_table[id].is_read =>
      id \in DOMAIN alerts_table' /\ alerts_table'[id].is_read

C23_WitnessOwn ==
  /\ request.op = "mark_alert_as_read"
  /\ request.caller = 1
  /\ request.alert_id = 2
  /\ Len(alerts_table) = 3
  /\ alerts_table[2].farmer_id = 1
  /\ alerts_table[2].is_read
  /\ ~alerts_table[1].is_read
  /\ response.status = 200


\* the ids get_pending_predictions returns for a limit
PendingIds(predictions_rows, limit) ==
  {pending_result(predictions_rows, limit)[i] :
     i \in DOMAIN pending_result(predictions_rows, limit)}

\* the predictions not validated
Unvalidated(predictions_rows) ==
  {id \in DOMAIN predictions_rows : ~predictions_rows[id].validated_by_agronomist}

\* a step of validate_prediction on an existing prediction, by an agronomist,
\* with the update done: the flag is set whatever is_valid
ValidateStep ==
  (/\ users[request'.caller].role = "agronomist"
   /\ request'.validation.prediction_id \in DOMAIN predictions
   /\ local'.store.update = "stored") =>
    /\ response'.status = 200
    /\ DOMAIN predictions' = DOMAIN predictions
    /\ predictions'[request'.validation.prediction_id].validated_by_agronomist
    /\ \A id \in DOMAIN predictions :
         id # request'.validation.prediction_id => predictions'[id] = predictions[id]

\* a validated prediction stays validated
StaysValidated ==
  \A id \in DOMAIN predictions :
    predictions[id].validated_by_agronomist =>
      id \in DOMAIN predictions' /\ predictions'[id].validated_by_agronomist

\* a prediction outside the list of a limit does not come into it
NoReentry(limit) ==
  \A id \in DOMAIN predictions :
    id \notin PendingIds(predictions, limit) =>
      id \notin PendingIds(predictions', limit)

\* the answer of get_pending_predictions holds unvalidated predictions only
PendingAnswer ==
  response'.status = 200 =>
    /\ {response'.predictions[i].id : i \in DOMAIN response'.predictions}
         = PendingIds(predictions, request'.limit)
    /\ PendingIds(predictions, request'.limit) \subseteq Unvalidated(predictions)
    /\ predictions' = predictions

C22_WitnessCutOff ==
  /\ request.op = "validate_prediction"
  /\ request.validation.prediction_id = 2
  /\ response.status = 200
  /\ Len(predictions) = 2
  /\ PendingIds(predictions, 1) = {1}


\* the email of the signup request is registered already
EmailRegistered ==
  \E id \in DOMAIN users : users[id].email = request'.user_data.email

\* C21: signup with an email that is already registered fails with status 400
\* 'Email already registered' and inserts no users row and no farmers row; the
\* existing user is left unchanged.
C21_DuplicateSignup400 ==
  [][(Handles("signup") /\ EmailRegistered) =>
       /\ response'.status = 400
       /\ response'.detail = "Email already registered"
       /\ users' = users
       /\ farmers' = farmers]_vars

\* the part of C21 about the tables: a signup with a registered email is
\* refused and leaves both tables as they are
C21_DuplicateInsertsNothing ==
  [][(Handles("signup") /\ EmailRegistered) =>
       /\ response'.status \in {400, 500}
       /\ users' = users
       /\ farmers' = farmers]_vars

\* a second signup with farmer@farm: answered 500, one user as before
C21_DuplicateAnswered500 ==
  /\ request.op = "signup"
  /\ request.user_data.email = "farmer@farm.example"
  /\ Len(users) = 1
  /\ users[1].email = "farmer@farm.example"
  /\ response.status = 500
  /\ response.detail = <<"Registration failed:", "400: Email already registered">>

====
